---------------------------- MODULE Spec2Model ----------------------------
(***************************************************************************)
(* Model of the language-server supervisor of src-tauri/src/ls/mod.rs:     *)
(* LsState (inner, run_id), LsClient (stdin, pending, next_id), the reader *)
(* thread, the handshake thread, the liveness poller, stop_process,        *)
(* shutdown, ls_start and the send commands.                               *)
(*                                                                         *)
(* Granularity.  A step of a thread is a piece of its code that touches    *)
(* shared state at one point only, so that the interleavings of the steps  *)
(* are the interleavings of the code: taking the mutex of `inner`,         *)
(* run_id.fetch_add / load, a blocking receive, a try_wait or a kill each  *)
(* start a new step.  In the model of the supervisor send_request's        *)
(* fetch_add, pending.insert and write_message form one step; ClientSpec   *)
(* takes LsClient statement by statement, with the mutex of stdin and the  *)
(* header and the body of a frame written apart.                           *)
(*                                                                         *)
(* The other parts of the application have variables and specifications    *)
(* of their own: the framing of ls/jsonrpc.rs byte by byte (CodecSpec),    *)
(* the parser bridge of parser_io.rs (ParserSpec), the paths taken from    *)
(* the command line by launch_io.rs (LaunchSpec), the JShell bridge of     *)
(* jshell_io.rs beside the parser bridge (BridgeSpec), the capture of the  *)
(* stderr of the bridges (StderrSpec), run_main and its completion poller  *)
(* of compile_run.rs (RunSpec), and write_packed_archive (ArchiveSpec) and *)
(* cleanup_stale_workspace_sessions (CleanupSpec) of project_archive.rs.   *)
(* PublishSpec is ClientSpec with a server that publishes diagnostics.     *)
(*                                                                         *)
(* Environment.  The child may exit at any time and may print any frame of *)
(* ChildFrames(s) on its stdout.  Child::try_wait answers Ok(None) for a   *)
(* running child and, for a child that has exited, Ok(Some(status)) or an  *)
(* error.  Child::kill ends a running child; on a child that has already   *)
(* exited it answers Ok or an error, depending on the platform.  A write   *)
(* to the stdin pipe succeeds while the child runs and fails afterwards.   *)
(* mpsc::Receiver::recv_timeout returns the message once one is in the     *)
(* channel and may time out while the channel is empty.                    *)
(***************************************************************************)
EXTENDS Integers, Sequences, FiniteSets, Bags, TLC

\* ---------------------------------------------------------------- bounds
MaxCalls == 2       \* command invocations in one run of the model
MaxFrames == 2      \* frames the children print in one run of the model
MaxSends == 3       \* send_request / send_notification calls on one client
MaxMsgs == 2        \* frames put on one stream of the framing model
MaxParserCalls == 2 \* calls of parser_send_raw
MaxBridges == 3     \* parser bridge processes spawned
MaxArgs == 2        \* arguments on the command line
MaxStarts == 2      \* calls of jshell_start
MaxLines == 52      \* lines a bridge prints on its stderr
MaxRuns == 2        \* calls of run_main
MaxWrites == 2      \* calls of write_packed_archive
MaxEntries == 2     \* paths of the project that are packed
MaxDirs == 2        \* entries in a workspace root

\* ------------------------------------------------------ program constants
LS_STOP_WAIT_ATTEMPTS == 10
WORKSPACE_SESSION_RETENTION_HOURS == 24 * 14
BRIDGE_STDERR_BUFFER_MAX_LINES == 50

\* threads that run commands (tauri command handlers, app shutdown)
Callers == {1, 2}

\* every ls_start that spawns a child is one command invocation
Sessions == 1..MaxCalls

NoId == 0           \* a frame without a (numeric) "id" member
NoSession == 0      \* Option<LsProcess>::None
Free == <<"free", 0>>       \* the mutex around `inner` is not held
Caller(t) == <<"caller", t>>  \* the mutex is held by command thread t

DIAG == "textDocument/publishDiagnostics"

VARIABLES
    run_id,     \* LsState.run_id
    inner,      \* LsState.inner: NoSession or the installed session
    lock,       \* holder of the mutex of LsState.inner
    nsess,      \* number of children spawned so far
    child,      \* child[s]: "none", "running", "exited", "killed", "reaped"
    next_id,    \* LsClient.next_id of session s
    pending,    \* LsClient.pending of session s: id -> channel
    stdin,      \* what child s has been sent on its stdin and can still read
    stdout,     \* frames printed by child s and not yet read
    reader,     \* reader thread of session s: "none", "running", "done"
    chans,      \* the mpsc channels of the send_request calls
    hs,         \* handshake thread of session s
    pl,         \* liveness poller of the ls_start that spawned session s:
                \* where it is, the Session whose exit it saw, the code
    gen,        \* run_id captured by the ls_start that spawned session s
    th,         \* command threads
    emitted,    \* bag of the events emitted to the application
    calls,      \* command invocations so far
    nframes     \* frames printed by the children so far

\* the supervisor and its Sessions
lsVars == <<run_id, inner, lock, nsess, child, next_id, pending, stdin, stdout,
            reader, chans, hs, pl, gen, th, emitted, calls, nframes>>

\* LsClient::send_request / send_notification / write_message statement by
\* statement, for the threads that send on one client at the same time
VARIABLES
    sr,         \* the sending threads: where each is, and what it sends
    wlock,      \* holder of the mutex of LsClient.stdin
    wire,       \* the pieces written to the stdin pipe, in order
    acq,        \* the messages in the order in which the mutex was taken
    served,     \* ids of the requests the server has answered
    sends       \* send_request / send_notification calls so far

clVars == <<sr, wlock, wire, acq, served, sends>>

\* JsonRpcWriter / JsonRpcReader on one byte stream (jsonrpc.rs)
VARIABLES
    stream,     \* the bytes written and not yet consumed by the reader
    closed,     \* the writing end of the stream has been closed
    written,    \* the frames put on the stream, in order
    results     \* what the calls of read_message returned, in order

codecVars == <<stream, closed, written, results>>

\* ParserBridgeState and the calls of parser_send_raw (parser_io.rs)
VARIABLES
    current,    \* ParserBridgeState.current: the bridge installed, or NoBridge
    guard,      \* the thread that holds the mutex of current, or NoCaller
    bridges,    \* the bridge processes spawned so far
    ps,         \* the threads that call parser_send_raw
    pcalls      \* calls of parser_send_raw started so far

parserVars == <<current, guard, bridges, ps, pcalls>>

\* the command line of the application and the paths taken from it
\* (launch_io.rs)
VARIABLES
    args,       \* the arguments after the program name
    paths,      \* what collect_umz_paths_from_args returned
    collected   \* collect_umz_paths_from_args has returned

launchVars == <<args, paths, collected>>

\* JshellState and the calls of jshell_start (jshell_io.rs)
VARIABLES
    jcurrent,   \* JshellState.current: the bridge installed, or NoBridge
    jchild,     \* the JShell bridge processes spawned so far
    js,         \* the threads that call jshell_start
    jstarts     \* calls of jshell_start so far

jshellVars == <<jcurrent, jchild, js, jstarts>>

\* the threads that capture the stderr of the bridges (jshell_io.rs
\* 338-362, parser_io.rs 327-346)
VARIABLES
    errbuf,     \* the Vec<String> behind stderr_lines, per bridge
    errseen,    \* lines the thread has read from the stderr of the bridge
    errdone     \* the thread has left its loop

stderrVars == <<errbuf, errseen, errdone>>

\* RunState, the calls of run_main and their completion pollers
\* (compile_run.rs)
VARIABLES
    rcurrent,   \* RunState.current: the id of the RunHandle in it, or NoRun
    rrun_id,    \* RunState.run_id
    rchild,     \* the process of run r
    rt,         \* the threads that call run_main
    rp,         \* the completion poller of run r
    revents,    \* the run-start and run-complete events emitted, in order
    rcalls      \* calls of run_main so far

runVars == <<rcurrent, rrun_id, rchild, rt, rp, revents, rcalls>>

\* the archive of the project on the disk and the calls of
\* write_packed_archive (project_archive.rs)
VARIABLES
    files,      \* what is at archive_path, at its ".tmp" and at its ".bak"
    wp,         \* the call of write_packed_archive
    wcalls      \* calls of write_packed_archive so far

archiveVars == <<files, wp, wcalls>>

\* cleanup_stale_workspace_sessions (project_archive.rs)
VARIABLES
    listing,            \* the entries read_dir has found in a workspace root
    now_ms,             \* now_unix_ms()
    current_session,    \* workspace_session_id(app)
    visited,            \* the entries the loop has looked at
    removed             \* the entries given to fs::remove_dir_all

cleanupVars == <<listing, now_ms, current_session, visited, removed>>

\* the bridges, the runs and the files of the project
moreVars == <<jshellVars, stderrVars, runVars, archiveVars, cleanupVars>>

\* the variables of the other parts of the application
otherVars == <<codecVars, parserVars, launchVars, moreVars>>

\* what the steps of the supervisor leave alone
notLs == <<clVars, otherVars>>

PARSER_SEND_MAX_ATTEMPTS == 2

ParserCallers == {1, 2}
NoCaller == 0
NoBridge == 0
Bridges == 1..MaxBridges

\* a bridge process: st is "none" (not spawned), "running", "exited" (it has
\* closed its stdout) or "reaped" (killed if it ran, and waited for); got
\* counts the request lines it received, out the response lines in its
\* stdout that were not read
NoProcess == [st |-> "none", got |-> 0, out |-> 0]

\* a thread outside parser_send_raw; attempts and spawned count the calls
\* of parser_send_once and of spawn_parser_bridge of its last call, b is
\* the bridge of its last attempt
IdleParserCaller ==
    [pc |-> "idle", attempt |-> 0, attempts |-> 0, spawned |-> 0,
     b |-> NoBridge, res |-> ""]

\* ParserBridgeState::default(): no bridge, no call
NothingParsed ==
    /\ current = NoBridge
    /\ guard = NoCaller
    /\ bridges = [b \in Bridges |-> NoProcess]
    /\ ps = [c \in ParserCallers |-> IdleParserCaller]
    /\ pcalls = 0

\* no command line has been looked at
NothingLaunched ==
    /\ args = <<>>
    /\ paths = <<>>
    /\ collected = FALSE

JshellCallers == {1, 2}
Jshells == 1..MaxStarts

\* a thread outside jshell_start; b is the child it has spawned
IdleJshellCaller == [pc |-> "idle", b |-> NoBridge, res |-> ""]

\* JshellState::default(): no session, no call
NothingEvaluated ==
    /\ jcurrent = NoBridge
    /\ jchild = [b \in Jshells |-> "none"]
    /\ js = [t \in JshellCallers |-> IdleJshellCaller]
    /\ jstarts = 0

\* the bridges whose stderr is captured
StderrThreads == {"jshell", "parser"}

\* `Arc::new(Mutex::new(Vec::new()))`: nothing captured
NothingCaptured ==
    /\ errbuf = [k \in StderrThreads |-> <<>>]
    /\ errseen = [k \in StderrThreads |-> 0]
    /\ errdone = [k \in StderrThreads |-> FALSE]

RunCallers == {1, 2}
Runs == 1..MaxRuns
NoRun == 0          \* Option<RunHandle>::None

\* a thread outside run_main; id is the run_id it has taken
IdleRunCaller == [pc |-> "idle", id |-> NoRun, res |-> ""]

\* a poller that has not been spawned; waited holds the ids of the handles
\* it has called try_wait on, cleared the id of the handle it has removed
NoPoller == [pc |-> "none", waited |-> {}, cleared |-> NoRun]

\* RunState::new() (67-73)
NothingRun ==
    /\ rcurrent = NoRun
    /\ rrun_id = 0
    /\ rchild = [r \in Runs |-> "none"]
    /\ rt = [t \in RunCallers |-> IdleRunCaller]
    /\ rp = [r \in Runs |-> NoPoller]
    /\ revents = <<>>
    /\ rcalls = 0

\* a file: the call that wrote it (0: it was there before), the entries
\* in it, and whether it is a finished archive
NoFile == [by |-> -1, entries |-> 0, complete |-> FALSE]
OldArchive == [by |-> 0, entries |-> 1, complete |-> TRUE]

\* no call of write_packed_archive; before is what was at archive_path
\* when the last call began, left the paths it has still to pack
IdleWriter ==
    [pc |-> "idle", before |-> NoFile, left |-> 0, had |-> FALSE, res |-> ""]

\* no archive on the disk and no call
NothingArchived ==
    /\ files = [archive |-> NoFile, tmp |-> NoFile, bak |-> NoFile]
    /\ wp = IdleWriter
    /\ wcalls = 0

\* an empty workspace root; the loop has not begun
NothingCleaned ==
    /\ listing = {}
    /\ now_ms = 0
    /\ current_session = <<>>
    /\ visited = {}
    /\ removed = {}

\* no bridge, no run, no file
NothingMore ==
    /\ NothingEvaluated
    /\ NothingCaptured
    /\ NothingRun
    /\ NothingArchived
    /\ NothingCleaned

\* nothing has been written to the stream and nothing read from it
NothingFramed ==
    /\ stream = <<>>
    /\ closed = FALSE
    /\ written = <<>>
    /\ results = <<>>

\* threads that send on one LsClient at the same time: with_client and
\* stop_process run under the mutex of `inner`, one at a time, and the
\* handshake thread runs beside them
Senders == {1, 2}

NoSender == 0       \* the mutex of LsClient.stdin is not held

IdleSender == [pc |-> "idle", kind |-> "", id |-> NoId, msg |-> 0, res |-> ""]

\* no thread is sending and nothing has been written
NothingSent ==
    /\ sr = [w \in Senders |-> IdleSender]
    /\ wlock = NoSender
    /\ wire = <<>>
    /\ acq = <<>>
    /\ served = {}
    /\ sends = 0

vars == <<lsVars, clVars, otherVars>>

\* ---------------------------------------------------------------- frames
\* A parsed JSON value as the reader sees it: its "id" (NoId when absent or
\* not an unsigned number), its "method" ("" when absent) and its "params"
\* ("" when absent).  ok = FALSE stands for bytes read_message fails to decode.
Frame(id, method, params) ==
    [ok |-> TRUE, id |-> id, method |-> method, params |-> params]

BadFrame == [ok |-> FALSE, id |-> NoId, method |-> "", params |-> ""]

\* the message json!({"jsonrpc","id","method","params"}) of send_request
RequestMessage(id, method) == [id |-> id, method |-> method]

\* the message json!({"jsonrpc","method","params"}) of send_notification
NotificationMessage(method) == [id |-> NoId, method |-> method]

\* The stdin pipe of a child, as far as the child's behaviour depends on
\* it: the ids of the requests written to it, and the frame written last.
\* The pipe goes away with the child: what a child that has ended was sent
\* is read by nobody.
NoMessage == [id |-> NoId, method |-> ""]

EmptyPipe == [requests |-> {}, last |-> NoMessage]

\* JsonRpcWriter::write_message on the pipe
PipeWrite(pipe, message) ==
    [requests |-> IF message.id # NoId
                  THEN pipe.requests \cup {message.id} ELSE pipe.requests,
     last |-> message]

\* ids of the requests the child of session s has been sent
RequestIdsWritten(s) == stdin[s].requests

\* what the child of session s may print: a response to a request it was
\* sent, a diagnostics notification (with or without params), another
\* notification, a request of its own (id and method), undecodable bytes
ChildFrames(s) ==
    {Frame(k, "", "r") : k \in RequestIdsWritten(s)}
      \cup {Frame(NoId, DIAG, "d"), Frame(NoId, DIAG, ""),
            Frame(NoId, "window/logMessage", "m"),
            Frame(1, "workspace/configuration", "c"),
            BadFrame}

\* -------------------------------------------------------------- channels
\* The channel of the send_request call that took id `id` on session s is
\* named <<s, id>>.  open: the receiver is alive (it is dropped when
\* send_request returns); q: the messages sent and not yet received.  A
\* channel leaves `chans` when both of its ends have been dropped.
Chan(s, id) == <<s, id>>

NewChan == [open |-> TRUE, q |-> <<>>]

ClosedChan == [open |-> FALSE, q |-> <<>>]

\* tx.send(message): fails, and leaves the message nowhere, when the
\* receiver has been dropped
TxSend(ch, message) ==
    IF ch.open THEN [ch EXCEPT !.q = Append(@, message)] ELSE ch

\* the sender end of channel c is held by a slot of the table of its session
SenderAlive(p, c) == \E k \in DOMAIN p[c[1]] : p[c[1]][k] = c

\* the channels after the receiver of c has been dropped
RxDrop(chs, p, c) ==
    IF SenderAlive(p, c)
    THEN [chs EXCEPT ![c] = ClosedChan]
    ELSE [d \in (DOMAIN chs) \ {c} |-> chs[d]]

\* the channels after the sender of c, taken out of the table, has sent
\* message and has been dropped
TxSendDrop(chs, c, message) ==
    IF chs[c].open
    THEN [chs EXCEPT ![c] = TxSend(@, message)]
    ELSE [d \in (DOMAIN chs) \ {c} |-> chs[d]]

\* pending.insert(id, tx)
PendingInsert(p, id, c) ==
    [k \in (DOMAIN p) \cup {id} |-> IF k = id THEN c ELSE p[k]]

\* pending.remove(&id): the table without the entry
PendingRemove(p, id) == [k \in (DOMAIN p) \ {id} |-> p[k]]

EmptyPending == [k \in {} |-> Chan(0, 0)]

\* -------------------------------------------------------- LsClient steps
\* An id taken from one counter that all Sessions share.
\* C22_IdsPerSession rules this counter out.
NewIdShared(s) ==
    1 + (CHOOSE n \in {next_id[r] : r \in Sessions} :
            \A r \in Sessions : next_id[r] <= n)

\* the id send_request takes: next_id.fetch_add(1) + 1
NewId(s) == next_id[s] + 1

\* write_message succeeds while the child holds the read end of the pipe
WriteOk(s) == child[s] = "running"

\* send_request up to the wait: the id is taken, the slot maps it to the
\* sender of a fresh channel, and the frame is written; when the write
\* fails the function returns the error (the receiver is dropped) and the
\* slot stays
SendRequest(s, method) ==
    /\ next_id' = [next_id EXCEPT ![s] = NewId(s)]
    /\ pending' = [pending EXCEPT
                     ![s] = PendingInsert(@, NewId(s), Chan(s, NewId(s)))]
    /\ chans' = [c \in (DOMAIN chans) \cup {Chan(s, NewId(s))} |->
                   IF c = Chan(s, NewId(s))
                   THEN (IF WriteOk(s) THEN NewChan ELSE ClosedChan)
                   ELSE chans[c]]
    /\ stdin' = IF WriteOk(s)
                THEN [stdin EXCEPT
                        ![s] = PipeWrite(@, RequestMessage(NewId(s), method))]
                ELSE stdin

\* send_notification: the frame is written, or the write fails
SendNotification(s, method) ==
    stdin' = IF WriteOk(s)
             THEN [stdin EXCEPT ![s] = PipeWrite(@, NotificationMessage(method))]
             ELSE stdin

Emit(event) == emitted' = emitted (+) SetToBag({event})

IdleThread ==
    [pc |-> "idle", op |-> "", s |-> NoSession, id |-> NoId, n |-> 0,
     run |-> 0, res |-> "", got |-> NoId]

\* a command starts on the first thread that is free
FirstIdle(t) ==
    /\ th[t].pc = "idle"
    /\ \A u \in Callers : u < t => th[u].pc # "idle"

\* the command has returned res to its caller; the thread is free again and
\* keeps what the call returned until it runs the next command
Returned(t, res) == [th[t] EXCEPT !.pc = "idle", !.res = res]

\* ------------------------------------------------------------------ Init
\* LsState::default(): no session, run_id 0; nothing spawned yet
NothingStarted ==
    /\ run_id = 0
    /\ inner = NoSession
    /\ lock = Free
    /\ nsess = 0
    /\ child = [s \in Sessions |-> "none"]
    /\ next_id = [s \in Sessions |-> 0]
    /\ pending = [s \in Sessions |-> EmptyPending]
    /\ stdin = [s \in Sessions |-> EmptyPipe]
    /\ stdout = [s \in Sessions |-> <<>>]
    /\ reader = [s \in Sessions |-> "none"]
    /\ chans = [c \in {} |-> NewChan]
    /\ hs = [s \in Sessions |-> [pc |-> "none", id |-> NoId]]
    /\ pl = [s \in Sessions |-> [pc |-> "none", code |-> "", saw |-> NoSession]]
    /\ gen = [s \in Sessions |-> 0]
    /\ th = [t \in Callers |-> IdleThread]
    /\ emitted = EmptyBag
    /\ calls = 0
    /\ nframes = 0

\* the state after construction: no Session, no request, no bridge
Init ==
    /\ NothingStarted
    /\ NothingSent
    /\ NothingFramed
    /\ NothingParsed
    /\ NothingLaunched
    /\ NothingMore

\* ------------------------------------------------------ the child process
\* An exit of the child that takes the senders of the waiting requests
\* with it (the pending table of the Session is emptied), so that their
\* receivers are disconnected.  C23_WaitsEndByTimeout rules this out.
ChildExitDropsSenders(s) ==
    /\ child[s] = "running"
    /\ child' = [child EXCEPT ![s] = "exited"]
    /\ stdin' = [stdin EXCEPT ![s] = EmptyPipe]
    /\ pending' = [pending EXCEPT ![s] = EmptyPending]
    /\ UNCHANGED <<run_id, inner, lock, nsess, next_id, stdout,
                   reader, chans, hs, pl, gen, th, emitted, calls, nframes>>
    /\ UNCHANGED notLs

\* the child exits on its own (a crash, or after the exit notification); the
\* read end of its stdin pipe is closed
ChildExit(s) ==
    /\ child[s] = "running"
    /\ child' = [child EXCEPT ![s] = "exited"]
    /\ stdin' = [stdin EXCEPT ![s] = EmptyPipe]
    /\ UNCHANGED <<run_id, inner, lock, nsess, next_id, pending, stdout,
                   reader, chans, hs, pl, gen, th, emitted, calls, nframes>>
    /\ UNCHANGED notLs

\* the child prints one frame on its stdout
ChildPrint(s) ==
    /\ child[s] = "running"
    /\ nframes < MaxFrames
    /\ \E f \in ChildFrames(s) :
          stdout' = [stdout EXCEPT ![s] = Append(@, f)]
    /\ nframes' = nframes + 1
    /\ UNCHANGED <<run_id, inner, lock, nsess, child, next_id, pending, stdin,
                   reader, chans, hs, pl, gen, th, emitted, calls>>
    /\ UNCHANGED notLs

\* ------------------------------------------------------ the reader thread
\* message.get("id").and_then(|value| value.as_u64())
FrameId(f) == f.id

\* A reader that correlates by position: it hands a frame with an id to the
\* oldest request in flight.  C1_DeliveredById rules this reader out.
ReaderSlotOldest(p, f) ==
    IF DOMAIN p = {} THEN NoId
    ELSE CHOOSE k \in DOMAIN p : \A j \in DOMAIN p : k <= j

\* the slot the reader takes out of the table for a frame with an id
\* (pending.remove(&id)): NoId when the table has no entry for the id
ReaderSlot(p, f) == IF FrameId(f) \in DOMAIN p THEN FrameId(f) ELSE NoId

\* A reader that ends its loop when tx.send fails (the receiver is gone).
\* C5_LateResponseDiscarded rules this reader out.
ReaderStopsOnSendError(sent) == IF sent THEN "running" ELSE "done"

\* `let _ = tx.send(message)`: the loop goes on whatever send returned
ReaderAfterSend(sent) == "running"

\* the method the reader forwards to the ls_diagnostics sink
DiagnosticsMethod == DIAG

\* A reader that forwards the params of every notification, whatever its
\* method.  C12_OtherNotificationDropped rules this reader out.
NotificationEventsAnyMethod(f) ==
    IF f.params # ""
    THEN SetToBag({[name |-> "ls_diagnostics", root |-> 0, payload |-> f.params]})
    ELSE EmptyBag

\* A reader that emits the params of a diagnostics notification twice.
\* C6_NotificationRouting rules this reader out.
NotificationEventsTwice(f) ==
    IF f.method = DiagnosticsMethod /\ f.params # ""
    THEN SetToBag({[name |-> "ls_diagnostics", root |-> 0, payload |-> f.params]})
         (+) SetToBag({[name |-> "ls_diagnostics", root |-> 0, payload |-> f.params]})
    ELSE EmptyBag

\* the events the reader emits for a frame without an id
NotificationEvents(f) ==
    IF f.method = DiagnosticsMethod /\ f.params # ""
    THEN SetToBag({[name |-> "ls_diagnostics", root |-> 0, payload |-> f.params]})
    ELSE EmptyBag

\* one iteration of `while let Ok(Some(message)) = reader.read_message()`
ReaderStep(s) ==
    /\ reader[s] = "running"
    /\ stdout[s] # <<>>
    /\ LET f == Head(stdout[s]) IN
         /\ stdout' = [stdout EXCEPT ![s] = Tail(@)]
         /\ IF ~f.ok
            THEN \* read_message returned Err: the loop ends
                 /\ reader' = [reader EXCEPT ![s] = "done"]
                 /\ UNCHANGED <<pending, chans, emitted>>
            ELSE IF FrameId(f) # NoId
            THEN LET k == ReaderSlot(pending[s], f) IN
                 IF k # NoId
                 THEN LET c == pending[s][k] IN
                      /\ pending' = [pending EXCEPT ![s] = PendingRemove(@, k)]
                      /\ chans' = TxSendDrop(chans, c, f)
                      /\ reader' = [reader EXCEPT
                                      ![s] = ReaderAfterSend(chans[c].open)]
                      /\ UNCHANGED emitted
                 ELSE UNCHANGED <<pending, chans, emitted, reader>>
            ELSE /\ emitted' = emitted (+) NotificationEvents(f)
                 /\ UNCHANGED <<pending, chans, reader>>
    /\ UNCHANGED <<run_id, inner, lock, nsess, child, next_id, stdin, hs, pl,
                   gen, th, calls, nframes>>
    /\ UNCHANGED notLs

\* read_message returned Ok(None): the child closed its stdout
ReaderEof(s) ==
    /\ reader[s] = "running"
    /\ stdout[s] = <<>>
    /\ child[s] # "running"
    /\ reader' = [reader EXCEPT ![s] = "done"]
    /\ UNCHANGED <<run_id, inner, lock, nsess, child, next_id, pending, stdin,
                   stdout, chans, hs, pl, gen, th, emitted, calls, nframes>>
    /\ UNCHANGED notLs

\* ------------------------------------------------------ the send commands
NotRunning == "LS is not running"

NotifyMethods ==
    {"textDocument/didOpen", "textDocument/didChange", "textDocument/didClose"}

\* A with_client that falls back on the Session started last when none is
\* installed.  C10_NotRunning rules this with_client out.
WithClientLast(cur) == IF cur = NoSession THEN nsess ELSE cur

\* the Session with_client hands to its closure: `guard.as_ref()`
WithClient(cur) == cur

\* ls_did_open, ls_did_change, ls_did_close: with_client around
\* send_notification; the lock is taken and released inside the step
SendNotificationCall(t, m) ==
    /\ FirstIdle(t)
    /\ calls < MaxCalls
    /\ lock = Free
    /\ calls' = calls + 1
    /\ LET s == WithClient(inner) IN
         IF s = NoSession
         THEN /\ th' = [th EXCEPT ![t] = [IdleThread EXCEPT !.op = m,
                                                        !.res = NotRunning]]
              /\ UNCHANGED stdin
         ELSE /\ SendNotification(s, m)
              /\ th' = [th EXCEPT ![t] = [IdleThread EXCEPT !.op = m, !.s = s,
                                            !.res = IF WriteOk(s) THEN "ok"
                                                     ELSE "write error"]]
    /\ UNCHANGED <<run_id, inner, lock, nsess, child, next_id, pending, stdout,
                   reader, chans, hs, pl, gen, emitted, nframes>>
    /\ UNCHANGED notLs

\* ls_format_document: with_client takes the lock; without a Session it
\* returns the error, otherwise its closure runs send_request, whose write
\* may fail; the guard of with_client lives until the closure has returned
FormatCall(t) ==
    /\ FirstIdle(t)
    /\ calls < MaxCalls
    /\ lock = Free
    /\ calls' = calls + 1
    /\ LET s == WithClient(inner) IN
         IF s = NoSession
         THEN /\ th' = [th EXCEPT ![t] = [IdleThread EXCEPT !.op = "format",
                                                        !.res = NotRunning]]
              /\ UNCHANGED <<lock, next_id, chans, pending, stdin>>
         ELSE /\ SendRequest(s, "textDocument/formatting")
              /\ IF WriteOk(s)
                 THEN /\ lock' = Caller(t)
                      /\ th' = [th EXCEPT ![t] = [IdleThread EXCEPT
                                  !.pc = "fmt_wait", !.op = "format", !.s = s,
                                  !.id = NewId(s)]]
                 ELSE /\ UNCHANGED lock
                      /\ th' = [th EXCEPT ![t] = [IdleThread EXCEPT
                                  !.op = "format", !.s = s, !.id = NewId(s),
                                  !.res = "write error"]]
    /\ UNCHANGED <<run_id, inner, nsess, child, stdout, reader, hs, pl, gen,
                   emitted, nframes>>
    /\ UNCHANGED notLs

\* rx.recv_timeout returned the message
FormatRecv(t) ==
    /\ th[t].pc = "fmt_wait"
    /\ chans[Chan(th[t].s, th[t].id)].q # <<>>
    /\ th' = [th EXCEPT ![t] = [Returned(t, "response") EXCEPT
                !.got = Head(chans[Chan(th[t].s, th[t].id)].q).id]]
    /\ chans' = RxDrop(chans, pending, Chan(th[t].s, th[t].id))
    /\ lock' = Free
    /\ UNCHANGED <<run_id, inner, nsess, child, next_id, pending, stdin, stdout,
                   reader, hs, pl, gen, emitted, calls, nframes>>
    /\ UNCHANGED notLs

\* A send that, when its request times out, gives the Session up: the
\* Session is taken out of `inner` and the counter moves on.
\* C19_FailedSendKeeps rules this send out.
FormatTimeoutTearsDown(t) ==
    /\ th[t].pc = "fmt_wait"
    /\ chans[Chan(th[t].s, th[t].id)].q = <<>>
    /\ th' = [th EXCEPT ![t] = Returned(t, "timeout")]
    /\ chans' = RxDrop(chans, pending, Chan(th[t].s, th[t].id))
    /\ lock' = Free
    /\ inner' = NoSession
    /\ run_id' = run_id + 1
    /\ UNCHANGED <<nsess, child, next_id, pending, stdin, stdout,
                   reader, hs, pl, gen, emitted, calls, nframes>>
    /\ UNCHANGED notLs

\* rx.recv_timeout timed out: "Timeout waiting for LS response"; the
\* function returns without touching the table
FormatTimeout(t) ==
    /\ th[t].pc = "fmt_wait"
    /\ chans[Chan(th[t].s, th[t].id)].q = <<>>
    /\ th' = [th EXCEPT ![t] = Returned(t, "timeout")]
    /\ chans' = RxDrop(chans, pending, Chan(th[t].s, th[t].id))
    /\ lock' = Free
    /\ UNCHANGED <<run_id, inner, nsess, child, next_id, pending, stdin, stdout,
                   reader, hs, pl, gen, emitted, calls, nframes>>
    /\ UNCHANGED notLs

\* ------------------------------------------------- shutdown and ls_start
\* shutdown (ls_stop): state.run_id.fetch_add(1), before the lock is taken
StopCall(t) ==
    /\ FirstIdle(t)
    /\ calls < MaxCalls
    /\ calls' = calls + 1
    /\ run_id' = run_id + 1
    /\ th' = [th EXCEPT ![t] = [IdleThread EXCEPT !.pc = "stop_lock",
                                                  !.op = "stop"]]
    /\ UNCHANGED <<inner, lock, nsess, child, next_id, pending, stdin, stdout,
                   reader, chans, hs, pl, gen, emitted, nframes>>
    /\ UNCHANGED notLs

\* A shutdown that looks at the Session (`guard.as_ref()`) and leaves it
\* installed.  C8_StoppedAfterStop rules this shutdown out.
GuardKeep(cur) == cur

\* what `guard.take()` leaves in `inner`
GuardTake(cur) == NoSession

\* `guard.take()` gave Some(process): stop_process(process) starts with
\* `let _ = send_request("shutdown")`; when its write fails, so does the
\* write of `let _ = send_notification("exit")`, and the wait loop is next
TakeAndStop(t) ==
    /\ lock' = Caller(t)
    /\ inner' = GuardTake(inner)
    /\ SendRequest(inner, "shutdown")
    /\ th' = [th EXCEPT ![t].pc = IF WriteOk(inner) THEN "sp_wait"
                                  ELSE "sp_poll",
                        ![t].s = inner, ![t].id = NewId(inner)]

\* shutdown: lock, then `if let Some(process) = guard.take()`
StopLock(t) ==
    /\ th[t].pc = "stop_lock"
    /\ lock = Free
    /\ IF inner = NoSession
       THEN /\ th' = [th EXCEPT ![t] = Returned(t, "ok")]
            /\ UNCHANGED <<inner, lock, next_id, chans, pending, stdin>>
       ELSE TakeAndStop(t)
    /\ UNCHANGED <<run_id, nsess, child, stdout, reader, hs, pl, gen, emitted,
                   calls, nframes>>
    /\ UNCHANGED notLs

\* stop_process: the shutdown request got its response or timed out; then
\* `let _ = send_notification("exit")`
SpRecv(t) ==
    /\ th[t].pc = "sp_wait"
    /\ \/ /\ chans[Chan(th[t].s, th[t].id)].q # <<>>
          /\ th' = [th EXCEPT ![t].pc = "sp_poll", ![t].got =
                      Head(chans[Chan(th[t].s, th[t].id)].q).id]
       \/ /\ chans[Chan(th[t].s, th[t].id)].q = <<>>
          /\ th' = [th EXCEPT ![t].pc = "sp_poll"]
    /\ chans' = RxDrop(chans, pending, Chan(th[t].s, th[t].id))
    /\ SendNotification(th[t].s, "exit")
    /\ UNCHANGED <<run_id, inner, lock, nsess, child, next_id, pending, stdout,
                   reader, hs, pl, gen, emitted, calls, nframes>>
    /\ UNCHANGED notLs

\* start_ls succeeded: the child is spawned, the reader started, the Session
\* installed, the handshake thread and the liveness poller started; ls_start
\* returns and drops its guard
Spawn(t) ==
    LET s == nsess + 1 IN
      /\ nsess' = s
      /\ child' = [child EXCEPT ![s] = "running"]
      /\ reader' = [reader EXCEPT ![s] = "running"]
      /\ inner' = s
      /\ gen' = [gen EXCEPT ![s] = th[t].run]
      /\ hs' = [hs EXCEPT ![s].pc = "start"]
      /\ pl' = [pl EXCEPT ![s].pc = "sleep"]
      /\ th' = [th EXCEPT ![t] = [Returned(t, "ok") EXCEPT !.s = s]]
      /\ lock' = Free

\* An ls_start that, when start_ls fails, puts the Session it has just
\* stopped back into `inner`.  C20_SpawnFailureInstallsNothing rules this
\* ls_start out.
SpawnErrorRestores(t) ==
    /\ th' = [th EXCEPT ![t] = Returned(t, "spawn error")]
    /\ lock' = Free
    /\ inner' = th[t].s
    /\ UNCHANGED <<nsess, child, reader, hs, pl, gen>>

\* start_ls failed (the executable or its support files are missing, or the
\* spawn failed): `?` returns the error and drops the guard
SpawnError(t) ==
    /\ th' = [th EXCEPT ![t] = Returned(t, "spawn error")]
    /\ lock' = Free
    /\ UNCHANGED <<inner, nsess, child, reader, hs, pl, gen>>

\* where the thread goes on once stop_process has returned r: shutdown
\* returns r and drops its guard, ls_start ignores r and goes on to start_ls
AfterStop(t, r) ==
    IF th[t].op = "stop"
    THEN /\ th' = [th EXCEPT ![t] = [Returned(t, r) EXCEPT !.n = 0]]
         /\ lock' = Free
    ELSE /\ th' = [th EXCEPT ![t].pc = "start_spawn", ![t].n = 0]
         /\ UNCHANGED lock

\* A wait loop over `0..=LS_STOP_WAIT_ATTEMPTS`: one check too many.
\* C9_StopSequence rules this loop out.
StopWaitAttemptsInclusive == LS_STOP_WAIT_ATTEMPTS + 1

\* the graceful wait checks stop_process makes: `0..LS_STOP_WAIT_ATTEMPTS`
StopWaitAttempts == LS_STOP_WAIT_ATTEMPTS

\* stop_process: one `process.child.try_wait()` of the wait loop
SpPoll(t) ==
    /\ th[t].pc = "sp_poll"
    /\ \/ \* Ok(None): sleep, then the next attempt, or the loop is over
          /\ child[th[t].s] = "running"
          /\ th' = [th EXCEPT ![t].n = @ + 1,
                      ![t].pc = IF th[t].n + 1 < StopWaitAttempts
                                THEN "sp_poll" ELSE "sp_kill"]
          /\ UNCHANGED <<child, lock>>
       \/ \* Ok(Some(_)): return Ok(())
          /\ child[th[t].s] # "running"
          /\ child' = [child EXCEPT ![th[t].s] = "reaped"]
          /\ AfterStop(t, "ok")
       \/ \* Err(_): break
          /\ child[th[t].s] # "running"
          /\ th' = [th EXCEPT ![t].pc = "sp_kill", ![t].n = @ + 1]
          /\ UNCHANGED <<child, lock>>
    /\ UNCHANGED <<run_id, inner, nsess, next_id, pending, stdin, stdout,
                   reader, chans, hs, pl, gen, emitted, calls, nframes>>
    /\ UNCHANGED notLs

\* stop_process: `process.child.kill()?`
SpKill(t) ==
    /\ th[t].pc = "sp_kill"
    /\ \/ /\ child[th[t].s] = "running"
          /\ child' = [child EXCEPT ![th[t].s] = "killed"]
          /\ stdin' = [stdin EXCEPT ![th[t].s] = EmptyPipe]
          /\ AfterStop(t, "ok")
       \/ /\ child[th[t].s] # "running"
          /\ UNCHANGED <<child, stdin>>
          /\ AfterStop(t, "ok")
       \/ /\ child[th[t].s] # "running"
          /\ UNCHANGED <<child, stdin>>
          /\ AfterStop(t, "kill error")
    /\ UNCHANGED <<run_id, inner, nsess, next_id, pending, stdout,
                   reader, chans, hs, pl, gen, emitted, calls, nframes>>
    /\ UNCHANGED notLs

\* An ls_start that keeps what fetch_add returned, the value before the
\* increment.  C13_GenerationCounter rules this ls_start out.
CapturedRunIdBefore(cur) == cur

\* the generation ls_start captures: `run_id.fetch_add(1) + 1`
CapturedRunId(cur) == cur + 1

\* An ls_start that takes its generation before it looks at the project
\* root, so that a rejected call has moved the counter.
\* C35_RejectedStartChangesNothing rules this ls_start out.
StartCallCountsRejected(t) ==
    /\ FirstIdle(t)
    /\ calls < MaxCalls
    /\ calls' = calls + 1
    /\ run_id' = run_id + 1
    /\ \/ th' = [th EXCEPT ![t] = [IdleThread EXCEPT !.op = "start",
                                                     !.res = "bad root"]]
       \/ th' = [th EXCEPT ![t] = [IdleThread EXCEPT !.pc = "start_lock",
                                     !.op = "start",
                                     !.run = CapturedRunId(run_id)]]
    /\ UNCHANGED <<inner, lock, nsess, child, next_id, pending, stdin, stdout,
                   reader, chans, hs, pl, gen, emitted, nframes>>
    /\ UNCHANGED notLs

\* ls_start: a project root that is no directory, or metadata that cannot be
\* written, ends the call; otherwise run_id.fetch_add(1) + 1 is captured
StartCall(t) ==
    /\ FirstIdle(t)
    /\ calls < MaxCalls
    /\ calls' = calls + 1
    /\ \/ /\ th' = [th EXCEPT ![t] = [IdleThread EXCEPT !.op = "start",
                                                        !.res = "bad root"]]
          /\ UNCHANGED run_id
       \/ /\ run_id' = run_id + 1
          /\ th' = [th EXCEPT ![t] = [IdleThread EXCEPT !.pc = "start_lock",
                                        !.op = "start",
                                        !.run = CapturedRunId(run_id)]]
    /\ UNCHANGED <<inner, lock, nsess, child, next_id, pending, stdin, stdout,
                   reader, chans, hs, pl, gen, emitted, nframes>>
    /\ UNCHANGED notLs

\* An ls_start that installs the new Session over the existing one without
\* stopping it.  C2_SingleChild rules this ls_start out.
StartLockNoStop(t) ==
    /\ th[t].pc = "start_lock"
    /\ lock = Free
    /\ \/ Spawn(t)
       \/ SpawnError(t)
    /\ UNCHANGED <<next_id, chans, pending, stdin>>
    /\ UNCHANGED <<run_id, stdout, emitted, calls, nframes>>
    /\ UNCHANGED notLs

\* ls_start: lock; `if let Some(existing) = guard.take()` runs
\* stop_process(existing); without a Session start_ls is next
StartLock(t) ==
    /\ th[t].pc = "start_lock"
    /\ lock = Free
    /\ \/ /\ inner # NoSession
          /\ TakeAndStop(t)
          /\ UNCHANGED <<nsess, child, reader, hs, pl, gen>>
       \/ /\ inner = NoSession
          /\ Spawn(t)
          /\ UNCHANGED <<next_id, chans, pending, stdin>>
       \/ /\ inner = NoSession
          /\ SpawnError(t)
          /\ UNCHANGED <<next_id, chans, pending, stdin>>
    /\ UNCHANGED <<run_id, stdout, emitted, calls, nframes>>
    /\ UNCHANGED notLs

\* ls_start after stop_process(existing): start_ls
StartSpawn(t) ==
    /\ th[t].pc = "start_spawn"
    /\ \/ Spawn(t)
       \/ SpawnError(t)
    /\ UNCHANGED <<run_id, next_id, pending, stdin, stdout, chans, emitted,
                   calls, nframes>>
    /\ UNCHANGED notLs

\* --------------------------------------------------- the handshake thread
HsEvent(s, name) == [name |-> name, root |-> s, payload |-> ""]

\* initialize_ls: send_request("initialize") up to the wait; a failed write
\* ends the handshake with ls_error
HsStart(s) ==
    /\ hs[s].pc = "start"
    /\ SendRequest(s, "initialize")
    /\ IF WriteOk(s)
       THEN /\ hs' = [hs EXCEPT ![s] = [pc |-> "wait", id |-> NewId(s)]]
            /\ UNCHANGED emitted
       ELSE /\ hs' = [hs EXCEPT ![s] = [pc |-> "done", id |-> NewId(s)]]
            /\ Emit(HsEvent(s, "ls_error"))
    /\ UNCHANGED <<run_id, inner, lock, nsess, child, stdout, reader, pl, gen,
                   th, calls, nframes>>
    /\ UNCHANGED notLs

\* initialize_ls: the response arrived, send_notification("initialized") is
\* written and ls_ready emitted, or that write failed (ls_error)
HsRecv(s) ==
    /\ hs[s].pc = "wait"
    /\ chans[Chan(s, hs[s].id)].q # <<>>
    /\ chans' = RxDrop(chans, pending, Chan(s, hs[s].id))
    /\ SendNotification(s, "initialized")
    /\ Emit(HsEvent(s, IF WriteOk(s) THEN "ls_ready" ELSE "ls_error"))
    /\ hs' = [hs EXCEPT ![s].pc = "done"]
    /\ UNCHANGED <<run_id, inner, lock, nsess, child, next_id, pending, stdout,
                   reader, pl, gen, th, calls, nframes>>
    /\ UNCHANGED notLs

\* A handshake that, when the wait for the response times out, discards the
\* Session it was started for and kills its child.  C18_FailedHandshakeKeeps
\* rules this handshake out.
HsTimeoutTearsDown(s) ==
    /\ hs[s].pc = "wait"
    /\ chans[Chan(s, hs[s].id)].q = <<>>
    /\ chans' = RxDrop(chans, pending, Chan(s, hs[s].id))
    /\ Emit(HsEvent(s, "ls_error"))
    /\ hs' = [hs EXCEPT ![s].pc = "done"]
    /\ inner' = IF inner = s THEN NoSession ELSE inner
    /\ child' = [child EXCEPT ![s] = IF @ = "running" THEN "killed" ELSE @]
    /\ UNCHANGED <<run_id, lock, nsess, next_id, pending, stdin, stdout,
                   reader, pl, gen, th, calls, nframes>>
    /\ UNCHANGED notLs

\* initialize_ls: the wait for the response timed out (ls_error)
HsTimeout(s) ==
    /\ hs[s].pc = "wait"
    /\ chans[Chan(s, hs[s].id)].q = <<>>
    /\ chans' = RxDrop(chans, pending, Chan(s, hs[s].id))
    /\ Emit(HsEvent(s, "ls_error"))
    /\ hs' = [hs EXCEPT ![s].pc = "done"]
    /\ UNCHANGED <<run_id, inner, lock, nsess, child, next_id, pending, stdin,
                   stdout, reader, pl, gen, th, calls, nframes>>
    /\ UNCHANGED notLs

\* ---------------------------------------------------- the liveness poller
Poller(s) == <<"poller", s>>

\* A poller without the check at the top of its loop: it goes on to the lock
\* whatever the generation.  C14_OneCurrentPoller rules this poller out.
PollCheckNoExit(s) ==
    /\ pl[s].pc = "sleep"
    /\ pl' = [pl EXCEPT ![s].pc = "lock"]
    /\ UNCHANGED <<run_id, inner, lock, nsess, child, next_id, pending, stdin,
                   stdout, reader, chans, hs, gen, th, emitted, calls, nframes>>
    /\ UNCHANGED notLs

\* after the sleep: `if run_id_ref.load() != run_id { return; }`
PollCheck(s) ==
    /\ pl[s].pc = "sleep"
    /\ pl' = [pl EXCEPT ![s].pc = IF run_id # gen[s] THEN "done" ELSE "lock"]
    /\ UNCHANGED <<run_id, inner, lock, nsess, child, next_id, pending, stdin,
                   stdout, reader, chans, hs, gen, th, emitted, calls, nframes>>
    /\ UNCHANGED notLs

\* inner.lock(), `guard.as_mut()`, then `process.child.try_wait()` on the
\* Session that is installed
PollLock(s) ==
    /\ pl[s].pc = "lock"
    /\ lock = Free
    /\ \/ \* no Session: return
          /\ inner = NoSession
          /\ pl' = [pl EXCEPT ![s].pc = "done"]
          /\ UNCHANGED <<inner, lock, child>>
       \/ \* Ok(None): the guard is dropped, the loop sleeps
          /\ inner # NoSession
          /\ child[inner] = "running"
          /\ pl' = [pl EXCEPT ![s].pc = "sleep"]
          /\ UNCHANGED <<inner, lock, child>>
       \/ \* Ok(Some(status)): *guard = None
          /\ inner # NoSession
          /\ child[inner] # "running"
          /\ child' = [child EXCEPT ![inner] = "reaped"]
          /\ inner' = NoSession
          /\ lock' = Poller(s)
          /\ pl' = [pl EXCEPT ![s] = [pc |-> "recheck", code |-> "status",
                                      saw |-> inner]]
       \/ \* Err(_): *guard = None
          /\ inner # NoSession
          /\ child[inner] # "running"
          /\ inner' = NoSession
          /\ lock' = Poller(s)
          /\ pl' = [pl EXCEPT ![s] = [pc |-> "recheck", code |-> "null",
                                      saw |-> inner]]
          /\ UNCHANGED child
    /\ UNCHANGED <<run_id, nsess, next_id, pending, stdin, stdout, reader,
                   chans, hs, gen, th, emitted, calls, nframes>>
    /\ UNCHANGED notLs

\* `if run_id_ref.load() == run_id` before the emit; otherwise return
PollRecheck(s) ==
    /\ pl[s].pc = "recheck"
    /\ IF run_id = gen[s]
       THEN /\ pl' = [pl EXCEPT ![s].pc = "emit"]
            /\ UNCHANGED lock
       ELSE /\ pl' = [pl EXCEPT ![s].pc = "done"]
            /\ lock' = Free
    /\ UNCHANGED <<run_id, inner, nsess, child, next_id, pending, stdin,
                   stdout, reader, chans, hs, gen, th, emitted, calls, nframes>>
    /\ UNCHANGED notLs

\* crash_app.emit("ls_crashed", {projectRoot, code}); return drops the guard
PollEmit(s) ==
    /\ pl[s].pc = "emit"
    /\ Emit([name |-> "ls_crashed", root |-> s, payload |-> pl[s].code])
    /\ pl' = [pl EXCEPT ![s].pc = "done"]
    /\ lock' = Free
    /\ UNCHANGED <<run_id, inner, nsess, child, next_id, pending, stdin,
                   stdout, reader, chans, hs, gen, th, calls, nframes>>
    /\ UNCHANGED notLs

\* ------------------------------------------------------------------ Next
\* the send commands, up to the arrival of a response
Sends ==
    \/ \E t \in Callers, m \in NotifyMethods : SendNotificationCall(t, m)
    \/ \E t \in Callers : FormatCall(t)
    \/ \E t \in Callers : FormatTimeout(t)

\* shutdown and ls_start, with stop_process
Lifecycle ==
    \/ \E t \in Callers : StopCall(t)
    \/ \E t \in Callers : StopLock(t)
    \/ \E t \in Callers : StartCall(t)
    \/ \E t \in Callers : StartLock(t)
    \/ \E t \in Callers : StartSpawn(t)
    \/ \E t \in Callers : SpRecv(t)
    \/ \E t \in Callers : SpPoll(t)
    \/ \E t \in Callers : SpKill(t)

\* the threads ls_start starts, up to the arrival of a response, and the
\* exit of the child
Background ==
    \/ \E s \in Sessions : ChildExit(s)
    \/ \E s \in Sessions : HsStart(s)
    \/ \E s \in Sessions : HsTimeout(s)
    \/ \E s \in Sessions : PollCheck(s)
    \/ \E s \in Sessions : PollLock(s)
    \/ \E s \in Sessions : PollRecheck(s)
    \/ \E s \in Sessions : PollEmit(s)

\* the output of the child, the reader thread, and the receives of the
\* responses the reader delivers
Transport ==
    \/ \E s \in Sessions : ChildPrint(s)
    \/ \E s \in Sessions : ReaderStep(s)
    \/ \E s \in Sessions : ReaderEof(s)
    \/ \E s \in Sessions : HsRecv(s)
    \/ \E t \in Callers : FormatRecv(t)

Next == Sends \/ Lifecycle \/ Background \/ Transport

Spec == Init /\ [][Next]_vars

\* The supervisor: any commands in any order, on at most two threads at a
\* time, with children that print nothing, so that no request is answered.
SupNext == Sends \/ Lifecycle \/ Background

SupSpec == Init /\ [][SupNext]_vars

\* The supervisor with its scheduling: a thread that is inside stop_process
\* keeps running.  Nothing stop_process calls blocks without a bound:
\* recv_timeout returns after LS_REQUEST_TIMEOUT_SECONDS at the latest,
\* try_wait and kill do not block, and thread::sleep returns.
\* (stop_process runs under the lock of `inner`, one thread at a time.)
StopProcessStep == \E t \in Callers : SpRecv(t) \/ SpPoll(t) \/ SpKill(t)

SupFairSpec == SupSpec /\ WF_vars(StopProcessStep)

\* The requests and what becomes of their Session: the commands, the
\* handshake threads and the exits of the children.  The liveness pollers
\* are left out: their steps touch no client, no pending table and no
\* channel.
RequestNext ==
    \/ Sends
    \/ Lifecycle
    \/ \E s \in Sessions : ChildExit(s)
    \/ \E s \in Sessions : HsStart(s)
    \/ \E s \in Sessions : HsTimeout(s)

\* the scheduling of the waits of send_request: rx.recv_timeout returns
\* after LS_REQUEST_TIMEOUT_SECONDS at the latest, whatever the other
\* threads do, and the thread that called it runs on
WaitEnds ==
    \/ \E t \in Callers : FormatTimeout(t)
    \/ \E t \in Callers : SpRecv(t)
    \/ \E s \in Sessions : HsTimeout(s)

RequestSpec == Init /\ [][RequestNext]_vars /\ WF_vars(WaitEnds)

\* the first ls_start of the application: nothing has been spawned yet and
\* no other ls_start is under way
FirstStart(t) ==
    /\ nsess = 0
    /\ \A u \in Callers : th[u].pc # "start_lock"
    /\ StartCall(t)

\* The transport of one Session: the first ls_start, then sends on the
\* Session it installs, with a child that prints frames and may exit.
RpcNext ==
    \/ \E t \in Callers : FirstStart(t)
    \/ \E t \in Callers : StartLock(t)
    \/ Sends
    \/ Background
    \/ Transport

RpcSpec == Init /\ [][RpcNext]_vars

\* ================================================================ claims
\* ---------------------------------------------------------------- C1
\* C1: whatever the order in which the response frames arrive, a frame is
\* only ever put into the channel of the send_request call that was assigned
\* the frame's id, and what a caller has received carries the caller's id.
C1_DeliveredById ==
    /\ \A c \in DOMAIN chans :
          \A i \in 1..Len(chans[c].q) : chans[c].q[i].id = c[2]
    /\ \A t \in Callers : th[t].got # NoId => th[t].got = th[t].id

\* the response to the second request (ls_format_document) has been received
\* by its caller while the first request (initialize) is still in flight and
\* its response is the next frame the reader will read: reverse order
C1_ReverseOrder ==
    \E t \in Callers :
       /\ th[t].res = "response" /\ th[t].id = 2 /\ th[t].got = 2
       /\ hs[th[t].s].pc = "wait" /\ hs[th[t].s].id = 1
       /\ 1 \in DOMAIN pending[th[t].s]
       /\ stdout[th[t].s] # <<>>
       /\ Head(stdout[th[t].s]) = Frame(1, "", "r")


\* ---------------------------------------------------------------- C2
\* C2: at most one child process is alive, whatever ls_start and ls_stop
\* calls have been made and however they interleave; and an ls_start that
\* found a Session installed reaches start_ls only when the stop sequence has
\* ended for that Session's child (its exit observed, or the kill issued).
C2_SingleChild ==
    /\ Cardinality({s \in Sessions : child[s] = "running"}) <= 1
    /\ \A s \in Sessions : child[s] = "running" =>
          \/ inner = s
          \/ \E t \in Callers : lock = Caller(t) /\ th[t].s = s
                                  /\ th[t].pc \in {"sp_wait", "sp_poll", "sp_kill"}
    /\ \A t \in Callers :
          th[t].pc = "start_spawn" => child[th[t].s] # "running"

\* a second ls_start has force-killed the child of the first Session and
\* spawned the child of the second
C2_Restarted ==
    /\ nsess = 2
    /\ child[1] = "killed"
    /\ child[2] = "running"
    /\ inner = 2


\* ---------------------------------------------------------------- C3
\* the ls_crashed events emitted for the Session of child s
Crashes(s) ==
    CopiesIn([name |-> "ls_crashed", root |-> s, payload |-> "status"], emitted)
      + CopiesIn([name |-> "ls_crashed", root |-> s, payload |-> "null"], emitted)

\* C3: when a liveness poller has found the child of the installed Session
\* exited, has cleared that Session and has returned, and no ls_stop or
\* ls_start has run since that Session was installed (the generation is
\* still the one its ls_start captured), then exactly one ls_crashed event
\* has been emitted for that Session.
C3_CrashReported ==
    \A r \in Sessions :
       (/\ pl[r].pc = "done"
        /\ pl[r].saw # NoSession
        /\ gen[pl[r].saw] = run_id)
       => Crashes(pl[r].saw) = 1


\* ---------------------------------------------------------------- C4
\* C4: once ls_format_document has returned the timeout error, the id its
\* send_request took is no longer in the pending table of its Session.
C4_TimeoutRemovesSlot ==
    \A t \in Callers :
       (th[t].pc = "idle" /\ th[t].res = "timeout")
       => th[t].id \notin DOMAIN pending[th[t].s]

\* ---------------------------------------------------------------- C5
\* the reader of session s takes the frame at the head of the child's output
ReaderTakes(s) ==
    /\ reader[s] = "running"
    /\ stdout[s] # <<>>
    /\ stdout'[s] = Tail(stdout[s])

\* the frame at the head of the output of child s carries the id of a
\* request whose send_request call has already returned without a response
\* (the receiver of its channel has been dropped)
LateResponse(s) ==
    /\ stdout[s] # <<>>
    /\ Head(stdout[s]).ok
    /\ Head(stdout[s]).id \in DOMAIN pending[s]
    /\ ~chans[pending[s][Head(stdout[s]).id]].open

\* C5: when the reader takes a response whose request has already timed
\* out, the frame reaches no caller (no channel gets a message, no thread
\* moves), no slot of another request leaves the table, and the reader stays
\* in its loop.
C5_LateResponseDiscarded ==
    [][\A s \in Sessions :
         (ReaderTakes(s) /\ LateResponse(s)) =>
            /\ reader'[s] = "running"
            /\ \A c \in DOMAIN chans' : c \in DOMAIN chans /\ chans'[c] = chans[c]
            /\ \A k \in DOMAIN pending[s] :
                  k # Head(stdout[s]).id =>
                     k \in DOMAIN pending'[s] /\ pending'[s][k] = pending[s][k]
            /\ th' = th
            /\ hs' = hs
            /\ emitted' = emitted]_vars

\* ls_format_document timed out, the reader has since taken the late
\* response (the id has left the table), and the reader is still in its loop
\* with the next frame of the child before it
C5_LateThenNext ==
    \E t \in Callers :
       /\ th[t].pc = "idle" /\ th[t].res = "timeout"
       /\ th[t].id \notin DOMAIN pending[th[t].s]
       /\ reader[th[t].s] = "running"
       /\ stdout[th[t].s] # <<>>


\* ---------------------------------------------------------------- C6
\* the frame at the head of the output of child s has a method and no id
NotificationFrame(s) ==
    /\ stdout[s] # <<>>
    /\ Head(stdout[s]).ok
    /\ Head(stdout[s]).id = NoId
    /\ Head(stdout[s]).method # ""

DiagnosticsEvent(params) ==
    [name |-> "ls_diagnostics", root |-> 0, payload |-> params]

\* C6: when the reader takes a frame that has a method and no id, the
\* pending table and every channel stay as they are and no waiting caller
\* moves; and when the method is textDocument/publishDiagnostics and the
\* frame has params, exactly one ls_diagnostics event carrying these params
\* is added to what has been emitted.
C6_NotificationRouting ==
    [][\A s \in Sessions :
         (ReaderTakes(s) /\ NotificationFrame(s)) =>
            /\ pending' = pending
            /\ chans' = chans
            /\ th' = th
            /\ hs' = hs
            /\ (Head(stdout[s]).method = DIAG /\ Head(stdout[s]).params # "")
                  => emitted' = emitted
                                  (+) SetToBag({DiagnosticsEvent(Head(stdout[s]).params)})]_vars

\* the diagnostics of one notification have been emitted once while the
\* initialize request is still waiting in the table, unanswered
C6_DiagnosticsWhilePending ==
    /\ CopiesIn(DiagnosticsEvent("d"), emitted) = 1
    /\ \E s \in Sessions :
          /\ hs[s].pc = "wait"
          /\ hs[s].id \in DOMAIN pending[s]
          /\ chans[Chan(s, hs[s].id)].q = <<>>

\* ---------------------------------------------------------------- C7
\* C7: while ls_format_document waits for the response to its request, the
\* lock of the supervisor's Session is not held by the waiting caller.
C7_NoLockWhileWaiting ==
    \A t \in Callers : th[t].pc = "fmt_wait" => lock # Caller(t)


\* ---------------------------------------------------------------- C8
\* thread t returns from ls_stop / shutdown in this step
StopReturns(t) ==
    /\ th[t].op = "stop"
    /\ th[t].pc # "idle"
    /\ th'[t].pc = "idle"

\* C8: when ls_stop / shutdown returns, with Ok or with an error, no Session
\* is installed and the lock is free, so that a send that follows finds no
\* Session and fails with "LS is not running".
C8_StoppedAfterStop ==
    [][\A t \in Callers :
         StopReturns(t) => /\ inner' = NoSession
                           /\ WithClient(inner') = NoSession
                           /\ lock' = Free]_vars

\* ls_stop has taken a Session, its kill has failed and it has returned the
\* error; no Session is installed
C8_StopFailed ==
    \E t \in Callers :
       /\ th[t].op = "stop" /\ th[t].pc = "idle" /\ th[t].res = "kill error"
       /\ th[t].s # NoSession
       /\ inner = NoSession


\* ---------------------------------------------------------------- C9
\* where a thread is while it runs stop_process
StopPcs == {"sp_wait", "sp_poll", "sp_kill"}

\* stop_process runs under the lock, in one thread at a time; its polls are
\* bounded, and the kill comes only after LS_STOP_WAIT_ATTEMPTS polls that saw
\* the child running or after a poll that failed, never after a poll that
\* observed the exit
C9_Bounded ==
    /\ Cardinality({t \in Callers : th[t].pc \in StopPcs}) <= 1
    /\ \A t \in Callers :
          /\ th[t].n <= LS_STOP_WAIT_ATTEMPTS
          /\ th[t].pc = "sp_kill" =>
                /\ child[th[t].s] # "reaped"
                /\ \/ th[t].n = LS_STOP_WAIT_ATTEMPTS
                   \/ child[th[t].s] # "running"

\* the order of the steps: the shutdown request is what stop_process writes
\* first, the exit notification is written next (after the request has been
\* written), whether or not the request was answered; a write that fails does
\* not end the sequence; the child is killed by the kill step only
C9_Order ==
    \A t \in Callers :
       /\ (th[t].pc \notin StopPcs /\ th'[t].pc \in StopPcs) =>
             /\ th'[t].n = 0
             /\ th'[t].pc \in {"sp_wait", "sp_poll"}
             /\ child[th'[t].s] = "running" =>
                   /\ th'[t].pc = "sp_wait"
                   /\ stdin'[th'[t].s].last = RequestMessage(th'[t].id, "shutdown")
       /\ (th[t].pc = "sp_wait" /\ th'[t].pc # "sp_wait") =>
             /\ th'[t].pc = "sp_poll"
             /\ th'[t].n = 0
             /\ child' = child
             /\ child[th[t].s] = "running" =>
                   /\ stdin'[th[t].s].last = NotificationMessage("exit")
                   /\ th[t].id \in stdin'[th[t].s].requests
       /\ \A s \in Sessions :
             (child[s] # "killed" /\ child'[s] = "killed") =>
                \E u \in Callers : th[u].pc = "sp_kill" /\ th[u].s = s

\* C9: stop_process writes the shutdown request, then the exit notification,
\* ignoring the errors of both; it then polls the exit status at most
\* LS_STOP_WAIT_ATTEMPTS times and kills the child only if no poll observed
\* the exit; and every run of stop_process comes to its end: again and again
\* no thread is inside stop_process.
C9_StopSequence ==
    /\ []C9_Bounded
    /\ [][C9_Order]_vars
    /\ []<>(\A t \in Callers : th[t].pc \notin StopPcs)

\* ls_stop has written shutdown and exit, ten polls have found the child
\* running, and the kill is the next step
C9_KillAfterPolls ==
    \E t \in Callers :
       /\ th[t].pc = "sp_kill"
       /\ th[t].n = LS_STOP_WAIT_ATTEMPTS
       /\ child[th[t].s] = "running"
       /\ stdin[th[t].s].last = NotificationMessage("exit")


\* ---------------------------------------------------------------- C10
\* thread t runs a send command (ls_did_open, ls_did_change, ls_did_close or
\* ls_format_document) in this step
SendCalled(t) ==
    /\ FirstIdle(t)
    /\ calls' = calls + 1
    /\ th'[t].op \in NotifyMethods \cup {"format"}

\* C10: a send command that finds no Session installed returns "LS is not
\* running"; nothing is written to the stdin of any child, and the state of
\* the supervisor, of every Session and of every thread but the caller's
\* result stays as it was.
C10_NotRunning ==
    [][\A t \in Callers :
         (SendCalled(t) /\ inner = NoSession) =>
            /\ th'[t].pc = "idle"
            /\ th'[t].res = NotRunning
            /\ th'[t].s = NoSession
            /\ \A u \in Callers \ {t} : th'[u] = th[u]
            /\ UNCHANGED <<run_id, inner, lock, nsess, child, next_id, pending,
                           stdin, stdout, reader, chans, hs, pl, gen,
                           emitted>>]_vars

\* a Session was started and has gone (stopped or crashed);
\* ls_format_document has then failed with "LS is not running"
C10_SendAfterSession ==
    /\ nsess >= 1
    /\ inner = NoSession
    /\ \E t \in Callers :
          th[t].pc = "idle" /\ th[t].op = "format" /\ th[t].res = NotRunning


\* ---------------------------------------------------------------- C11
\* C11: when the reader takes bytes that fail to decode (no Content-Length
\* header, or a body that is no JSON), it stays in its loop, so that the
\* frames that follow are still read.
C11_BadFrameKeepsReader ==
    [][\A s \in Sessions :
         (ReaderTakes(s) /\ ~Head(stdout[s]).ok) => reader'[s] = "running"]_vars


\* ---------------------------------------------------------------- C12
\* C12: when the reader takes a notification whose method is not
\* textDocument/publishDiagnostics, nothing is emitted, the pending table and
\* the channels stay as they are, no waiting caller moves, and the reader
\* stays in its loop with the frames that follow still before it.
C12_OtherNotificationDropped ==
    [][\A s \in Sessions :
         (ReaderTakes(s) /\ NotificationFrame(s)
            /\ Head(stdout[s]).method # DIAG) =>
            /\ emitted' = emitted
            /\ pending' = pending
            /\ chans' = chans
            /\ th' = th
            /\ hs' = hs
            /\ reader'[s] = "running"
            /\ stdout'[s] = Tail(stdout[s])]_vars

\* the child has printed two frames, the reader has taken the first without
\* emitting anything and without touching the waiting initialize request,
\* and it is in its loop with the second frame, a response, before it
C12_DroppedThenNext ==
    \E s \in Sessions :
       /\ nframes = 2
       /\ reader[s] = "running"
       /\ stdout[s] = <<Frame(1, "", "r")>>
       /\ emitted = EmptyBag
       /\ hs[s].pc = "wait"
       /\ hs[s].id \in DOMAIN pending[s]
       /\ chans[Chan(s, hs[s].id)].q = <<>>


\* ---------------------------------------------------------------- C13
\* thread t is handed an ls_start call in this step
StartCalled(t) ==
    /\ FirstIdle(t)
    /\ calls' = calls + 1
    /\ th'[t].op = "start"

\* thread t is handed an ls_stop / shutdown call in this step
StopCalled(t) ==
    /\ FirstIdle(t)
    /\ calls' = calls + 1
    /\ th'[t].op = "stop"

\* C13 as stated: the generation counter never decreases, and every ls_start
\* call and every ls_stop call increments it by exactly one.
C13_EveryCallIncrements ==
    [][/\ run_id' >= run_id
       /\ \A t \in Callers :
             (StartCalled(t) \/ StopCalled(t)) => run_id' = run_id + 1]_vars

\* the generations captured by the ls_start calls that are under way or have
\* installed a Session are pairwise different, and none is ahead of the
\* counter
C13_Distinct ==
    /\ \A s1, s2 \in 1..nsess : s1 # s2 => gen[s1] # gen[s2]
    /\ \A t1, t2 \in Callers :
          (t1 # t2 /\ th[t1].pc \in {"start_lock", "start_spawn"} \cup StopPcs
                   /\ th[t1].op = "start"
                   /\ th[t2].pc \in {"start_lock", "start_spawn"} \cup StopPcs
                   /\ th[t2].op = "start")
          => th[t1].run # th[t2].run
    /\ \A t \in Callers, s \in 1..nsess :
          (th[t].op = "start" /\ th[t].pc # "idle") => th[t].run # gen[s]
    /\ \A s \in 1..nsess : gen[s] >= 1 /\ gen[s] <= run_id

\* how the counter moves: never down; up by exactly one in every ls_stop call
\* and in every ls_start call that gets past the check of the project root
\* and the preparation of the metadata, which captures the new value; in no
\* other step
C13_Steps ==
    /\ run_id' >= run_id
    /\ \A t \in Callers :
          /\ StopCalled(t) => run_id' = run_id + 1
          /\ (StartCalled(t) /\ th'[t].pc = "start_lock") =>
                /\ run_id' = run_id + 1
                /\ th'[t].run = run_id'
          /\ (StartCalled(t) /\ th'[t].pc = "idle") => run_id' = run_id
    /\ run_id' # run_id =>
          \E t \in Callers :
             StopCalled(t) \/ (StartCalled(t) /\ th'[t].pc = "start_lock")

\* C13, amended: the generation counter never decreases; it is incremented by
\* exactly one by every ls_stop call and by every ls_start call that passes
\* the validation of its project root (a rejected ls_start leaves it alone);
\* no two ls_start calls capture the same generation.
C13_GenerationCounter ==
    /\ []C13_Distinct
    /\ [][C13_Steps]_vars

\* two ls_start calls have installed a Session each: they captured the
\* generations 1 and 2, and the counter has counted both
C13_TwoStarts ==
    /\ nsess = 2
    /\ gen[1] = 1
    /\ gen[2] = 2
    /\ run_id = 2


\* ---------------------------------------------------------------- C14
\* the pollers whose captured generation is the current one
CurrentPollers == {s \in Sessions : pl[s].pc # "none" /\ gen[s] = run_id}

\* a poller that wakes up and finds the counter different from the
\* generation it captured returns there: it has not locked `inner`, has
\* looked at no Session and at no child, and nothing is emitted
C14_StaleExit ==
    \A s \in Sessions :
       (pl[s].pc = "sleep" /\ pl'[s] # pl[s] /\ run_id # gen[s]) =>
          /\ pl'[s] = [pl[s] EXCEPT !.pc = "done"]
          /\ UNCHANGED <<inner, lock, child, emitted>>

\* C14: at most one liveness poller has captured the generation the counter
\* holds; and a poller that finds its generation different from the counter
\* at the check of its loop exits at that check, without inspecting the
\* Session and without emitting.
C14_OneCurrentPoller ==
    /\ [](Cardinality(CurrentPollers) <= 1)
    /\ [][C14_StaleExit]_vars

\* a second ls_start has installed its Session; the poller of the first has
\* returned without having seen the exit of any child, and the poller of the
\* second, the only current one, is running
C14_StaleGone ==
    /\ nsess = 2
    /\ inner = 2
    /\ pl[1].pc = "done" /\ pl[1].saw = NoSession
    /\ pl[2].pc \in {"sleep", "lock"}
    /\ CurrentPollers = {2}
    /\ emitted = EmptyBag


\* ---------------------------------------------------------------- C15
\* the ls_ready and ls_error events emitted by the handshake of session s
HandshakeEvents(s) ==
    CopiesIn(HsEvent(s, "ls_ready"), emitted)
      + CopiesIn(HsEvent(s, "ls_error"), emitted)

\* the handshake of session s emits an event in this step
HandshakeEmits(s) == HandshakeEvents(s)' > HandshakeEvents(s)

\* C15: a handshake task emits ls_ready or ls_error only while the
\* generation counter still holds the value its ls_start captured; once an
\* ls_stop or ls_start has moved the counter on, the task emits nothing.
C15_StaleHandshakeSilent ==
    [][\A s \in Sessions : HandshakeEmits(s) => run_id = gen[s]]_vars


\* ---------------------------------------------------------------- C16
\* the liveness poller of session s emits ls_crashed in this step
CrashEmits(s) == Crashes(s)' > Crashes(s)

\* C16: whenever a liveness poller emits ls_crashed, the generation counter
\* holds, at that step, the value the poller captured, also while ls_stop or
\* ls_start run concurrently with the poller.
C16_CrashOnlyCurrent ==
    [][\A s \in Sessions : CrashEmits(s) => run_id = gen[s]]_vars


\* ---------------------------------------------------------------- C17
\* the handshake of session s emits ls_ready / ls_error in this step
ReadyEmits(s) ==
    CopiesIn(HsEvent(s, "ls_ready"), emitted')
      > CopiesIn(HsEvent(s, "ls_ready"), emitted)

ErrorEmits(s) ==
    CopiesIn(HsEvent(s, "ls_error"), emitted')
      > CopiesIn(HsEvent(s, "ls_error"), emitted)

\* the channel of the initialize request of session s holds the response to
\* that request: a frame with the id of the request and no method
InitializeResponse(s) ==
    /\ hs[s].pc = "wait"
    /\ chans[Chan(s, hs[s].id)].q # <<>>
    /\ Head(chans[Chan(s, hs[s].id)].q).id = hs[s].id
    /\ Head(chans[Chan(s, hs[s].id)].q).method = ""

\* no handshake emits more than one event
C17_OneEvent == \A s \in Sessions : HandshakeEvents(s) <= 1

\* ls_ready is emitted only on the response to initialize, with the
\* initialized notification written to the child
C17_ReadyAfterResponse ==
    \A s \in Sessions :
       ReadyEmits(s) =>
          /\ InitializeResponse(s)
          /\ WriteOk(s)
          /\ stdin'[s].last = NotificationMessage("initialized")

\* ls_error is emitted only when the write of initialize failed, the wait
\* for the response timed out, or the write of initialized failed
C17_ErrorOnFailure ==
    \A s \in Sessions :
       ErrorEmits(s) =>
          \/ hs[s].pc = "start" /\ ~WriteOk(s)
          \/ hs[s].pc = "wait" /\ chans[Chan(s, hs[s].id)].q = <<>>
          \/ hs[s].pc = "wait" /\ chans[Chan(s, hs[s].id)].q # <<>>
                /\ ~WriteOk(s)

\* C17: the handshake of an installed Session emits at most one event;
\* ls_ready only once the response to the initialize request has been
\* received and the initialized notification has then been written; ls_error
\* only when one of the two steps failed (timeout or write error).
C17_HandshakeOutcome ==
    /\ []C17_OneEvent
    /\ [][C17_ReadyAfterResponse]_vars
    /\ [][C17_ErrorOnFailure]_vars


\* ---------------------------------------------------------------- C18
\* the handshake of session s has failed: its ls_error has been emitted
HandshakeFailed(s) == CopiesIn(HsEvent(s, "ls_error"), emitted) >= 1

\* thread t, in ls_stop, gets the lock in this step
StopLocks(t) ==
    /\ th[t].pc = "stop_lock"
    /\ th'[t] # th[t]

\* the step in which a handshake fails changes neither the installed
\* Session, nor the state of any child, nor the counter, nor the lock
C18_FailureKeeps ==
    \A s \in Sessions :
       ErrorEmits(s) => UNCHANGED <<inner, child, run_id, lock, nsess>>

\* an ls_stop that gets the lock while a Session whose handshake has failed
\* is installed takes that Session and starts stop_process on it
C18_StopStillStops ==
    \A t \in Callers :
       (StopLocks(t) /\ inner # NoSession /\ HandshakeFailed(inner)) =>
          /\ inner' = NoSession
          /\ th'[t].s = inner
          /\ th'[t].pc \in StopPcs

\* C18: a failed handshake (initialize timed out or a write failed) leaves
\* the Session installed and its child as it was, and does not change the
\* generation counter; an ls_stop that comes later still runs the stop
\* sequence on that Session.
C18_FailedHandshakeKeeps ==
    /\ [][C18_FailureKeeps]_vars
    /\ [][C18_StopStillStops]_vars

\* the initialize request of a Session timed out, its child is still
\* running, and an ls_stop is in stop_process on that Session
C18_StopAfterFailure ==
    \E t \in Callers :
       /\ th[t].op = "stop"
       /\ th[t].pc \in StopPcs
       /\ HandshakeFailed(th[t].s)
       /\ child[th[t].s] = "running"
       /\ hs[th[t].s].id \in DOMAIN pending[th[t].s]


\* ---------------------------------------------------------------- C19
\* the commands that go through with_client
SendOps == NotifyMethods \cup {"format"}

\* a send of thread t returns in this step with the timeout error or with
\* the error of a write to the pipe
SendFails(t) ==
    /\ th'[t] # th[t]
    /\ th'[t].pc = "idle"
    /\ th'[t].op \in SendOps
    /\ th'[t].res \in {"timeout", "write error"}

\* C19: a send that fails with a timeout or with a write error leaves the
\* supervisor as it was: the Session the send went to is still the installed
\* one, the generation counter and the children are unchanged, the lock is
\* released, and with_client still hands that Session to the next send.
C19_FailedSendKeeps ==
    [][\A t \in Callers :
         SendFails(t) => /\ th'[t].s # NoSession
                         /\ inner = th'[t].s
                         /\ inner' = inner
                         /\ WithClient(inner') = th'[t].s
                         /\ run_id' = run_id
                         /\ child' = child
                         /\ nsess' = nsess
                         /\ lock' = Free]_vars

\* ls_format_document has returned the timeout error; the Session it sent to
\* is installed, its child is running, and its generation is the current one
C19_TimedOutStillInstalled ==
    \E t \in Callers :
       /\ th[t].pc = "idle" /\ th[t].op = "format" /\ th[t].res = "timeout"
       /\ inner = th[t].s
       /\ child[inner] = "running"
       /\ gen[inner] = run_id
       /\ lock = Free


\* ---------------------------------------------------------------- C20
\* ls_start of thread t returns the error of start_ls in this step
SpawnFails(t) ==
    /\ th'[t] # th[t]
    /\ th'[t].pc = "idle"
    /\ th'[t].op = "start"
    /\ th'[t].res = "spawn error"

\* C20: when start_ls fails (the executable or its support files cannot be
\* resolved, or the spawn fails), ls_start returns the error to its caller in
\* that step; no Session is installed afterwards, and the call has created
\* no child, no reader, no handshake thread, no liveness poller and no event.
C20_SpawnFailureInstallsNothing ==
    [][\A t \in Callers :
         SpawnFails(t) => /\ th[t].pc \in {"start_lock", "start_spawn"}
                          /\ inner' = NoSession
                          /\ lock' = Free
                          /\ UNCHANGED <<nsess, child, reader, hs, pl, gen,
                                         emitted>>]_vars

\* an ls_start that had stopped the Session of an earlier ls_start has failed
\* to spawn: it has returned the error, and no Session is installed
C20_FailedRestart ==
    \E t \in Callers :
       /\ th[t].pc = "idle" /\ th[t].op = "start"
       /\ th[t].res = "spawn error"
       /\ th[t].s = 1
       /\ nsess = 1
       /\ inner = NoSession
       /\ lock = Free


\* ====================================================================
\* LsClient statement by statement (mod.rs:184-225): one Session, whose
\* child answers the requests it has read, and the threads that send on its
\* client at the same time.
\* ====================================================================

\* a piece of a frame on the pipe: the header or the body of message msg,
\* which carries id (NoId for a notification)
Chunk(msg, part, id) == [msg |-> msg, part |-> part, id |-> id]

\* A send_request that writes its frame first and registers the id once the
\* write has returned.  C21_RegisteredBeforeWritten rules this order out.
RequestStepsWriteFirst == <<"lock", "header", "body", "insert", "recv">>

\* the statements of send_request after next_id.fetch_add, in source order:
\* pending.insert, write_message (stdin.lock, the header, the body with the
\* flush), rx.recv_timeout
RequestSteps == <<"insert", "lock", "header", "body", "recv">>

\* the statements of send_notification: write_message
NotificationSteps == <<"lock", "header", "body">>

StepsOf(kind) == IF kind = "request" THEN RequestSteps ELSE NotificationSteps

\* the statement that follows statement pc ("idle": the function returns)
StepAfter(kind, pc) ==
    LET steps == StepsOf(kind)
        i == CHOOSE k \in 1..Len(steps) : steps[k] = pc
    IN IF i = Len(steps) THEN "idle" ELSE steps[i + 1]

\* the state after start_ls has built the client of Session 1 and ls_start
\* has installed the Session: the child runs, the reader runs, next_id is 0
\* and the pending table is empty
ClientInit ==
    /\ run_id = 1
    /\ inner = 1
    /\ lock = Free
    /\ nsess = 1
    /\ child = [s \in Sessions |-> IF s = 1 THEN "running" ELSE "none"]
    /\ next_id = [s \in Sessions |-> 0]
    /\ pending = [s \in Sessions |-> EmptyPending]
    /\ stdin = [s \in Sessions |-> EmptyPipe]
    /\ stdout = [s \in Sessions |-> <<>>]
    /\ reader = [s \in Sessions |-> IF s = 1 THEN "running" ELSE "none"]
    /\ chans = [c \in {} |-> NewChan]
    /\ hs = [s \in Sessions |-> [pc |-> "none", id |-> NoId]]
    /\ pl = [s \in Sessions |-> [pc |-> "none", code |-> "", saw |-> NoSession]]
    /\ gen = [s \in Sessions |-> IF s = 1 THEN 1 ELSE 0]
    /\ th = [t \in Callers |-> IdleThread]
    /\ emitted = EmptyBag
    /\ calls = 1
    /\ nframes = 0
    /\ NothingSent
    /\ NothingFramed
    /\ NothingParsed
    /\ NothingLaunched
    /\ NothingMore

\* what the steps of a sending thread leave alone
notClient == <<run_id, inner, lock, nsess, child, stdin, stdout, reader, hs,
               pl, gen, th, emitted, calls, nframes, otherVars>>

\* send_request: `let id = self.next_id.fetch_add(1) + 1`
ClSendRequest(w) ==
    /\ sr[w].pc = "idle"
    /\ sends < MaxSends
    /\ sends' = sends + 1
    /\ next_id' = [next_id EXCEPT ![1] = NewId(1)]
    /\ sr' = [sr EXCEPT ![w] = [pc |-> RequestSteps[1], kind |-> "request",
                                id |-> NewId(1), msg |-> sends + 1,
                                res |-> ""]]
    /\ UNCHANGED <<pending, chans, wlock, wire, acq, served>>
    /\ UNCHANGED notClient

\* send_notification: the message is built
ClSendNotification(w) ==
    /\ sr[w].pc = "idle"
    /\ sends < MaxSends
    /\ sends' = sends + 1
    /\ sr' = [sr EXCEPT ![w] = [pc |-> NotificationSteps[1],
                                kind |-> "notification", id |-> NoId,
                                msg |-> sends + 1, res |-> ""]]
    /\ UNCHANGED <<next_id, pending, chans, wlock, wire, acq, served>>
    /\ UNCHANGED notClient

\* send_request: `pending.insert(id, tx)`, under the mutex of the table
ClInsert(w) ==
    /\ sr[w].pc = "insert"
    /\ pending' = [pending EXCEPT
                     ![1] = PendingInsert(@, sr[w].id, Chan(1, sr[w].id))]
    /\ chans' = [c \in (DOMAIN chans) \cup {Chan(1, sr[w].id)} |->
                   IF c = Chan(1, sr[w].id) THEN NewChan ELSE chans[c]]
    /\ sr' = [sr EXCEPT ![w].pc = StepAfter("request", "insert")]
    /\ UNCHANGED <<next_id, wlock, wire, acq, served, sends>>
    /\ UNCHANGED notClient

\* A write_message that does not wait for the mutex of stdin.
\* C27_FramesNotInterleaved rules this write_message out.
ClLockNoWait(w) ==
    /\ sr[w].pc = "lock"
    /\ wlock' = w
    /\ acq' = Append(acq, sr[w].msg)
    /\ sr' = [sr EXCEPT ![w].pc = StepAfter(sr[w].kind, "lock")]
    /\ UNCHANGED <<next_id, pending, chans, wire, served, sends>>
    /\ UNCHANGED notClient

\* write_message: `self.stdin.lock()`
ClLock(w) ==
    /\ sr[w].pc = "lock"
    /\ wlock = NoSender
    /\ wlock' = w
    /\ acq' = Append(acq, sr[w].msg)
    /\ sr' = [sr EXCEPT ![w].pc = StepAfter(sr[w].kind, "lock")]
    /\ UNCHANGED <<next_id, pending, chans, wire, served, sends>>
    /\ UNCHANGED notClient

\* the function returns the error of the write: the guard of stdin and the
\* receiver of the channel (if there is one yet) are dropped
ClWriteFails(w) ==
    /\ sr' = [sr EXCEPT ![w].pc = "idle", ![w].res = "write error"]
    /\ wlock' = IF wlock = w THEN NoSender ELSE wlock
    /\ chans' = IF sr[w].kind = "request" /\ Chan(1, sr[w].id) \in DOMAIN chans
                THEN RxDrop(chans, pending, Chan(1, sr[w].id))
                ELSE chans
    /\ UNCHANGED wire

\* JsonRpcWriter::write_message: "Content-Length: {}\r\n\r\n" goes to the
\* pipe, or the write fails
ClWriteHeader(w) ==
    /\ sr[w].pc = "header"
    /\ IF WriteOk(1)
       THEN /\ wire' = Append(wire, Chunk(sr[w].msg, "header", sr[w].id))
            /\ sr' = [sr EXCEPT ![w].pc = StepAfter(sr[w].kind, "header")]
            /\ UNCHANGED <<wlock, chans>>
       ELSE ClWriteFails(w)
    /\ UNCHANGED <<next_id, pending, acq, served, sends>>
    /\ UNCHANGED notClient

\* JsonRpcWriter::write_message: the body goes to the pipe and is flushed,
\* or the write fails; write_message returns and drops the guard of stdin
ClWriteBody(w) ==
    /\ sr[w].pc = "body"
    /\ IF WriteOk(1)
       THEN /\ wire' = Append(wire, Chunk(sr[w].msg, "body", sr[w].id))
            /\ sr' = [sr EXCEPT ![w].pc = StepAfter(sr[w].kind, "body"),
                                ![w].res = "ok"]
            /\ wlock' = IF wlock = w THEN NoSender ELSE wlock
            /\ UNCHANGED chans
       ELSE ClWriteFails(w)
    /\ UNCHANGED <<next_id, pending, acq, served, sends>>
    /\ UNCHANGED notClient

\* send_request: rx.recv_timeout returned the message
ClRecv(w) ==
    /\ sr[w].pc = "recv"
    /\ chans[Chan(1, sr[w].id)].q # <<>>
    /\ chans' = RxDrop(chans, pending, Chan(1, sr[w].id))
    /\ sr' = [sr EXCEPT ![w].pc = "idle", ![w].res = "response"]
    /\ UNCHANGED <<next_id, pending, wlock, wire, acq, served, sends>>
    /\ UNCHANGED notClient

\* send_request: rx.recv_timeout timed out
ClTimeout(w) ==
    /\ sr[w].pc = "recv"
    /\ chans[Chan(1, sr[w].id)].q = <<>>
    /\ chans' = RxDrop(chans, pending, Chan(1, sr[w].id))
    /\ sr' = [sr EXCEPT ![w].pc = "idle", ![w].res = "timeout"]
    /\ UNCHANGED <<next_id, pending, wlock, wire, acq, served, sends>>
    /\ UNCHANGED notClient

\* ids of the requests whose frame is on the pipe whole: the header, and
\* right after it the body of the same message
RequestsOnWire ==
    {wire[i].id : i \in {j \in 1..(Len(wire) - 1) :
                           /\ wire[j].part = "header"
                           /\ wire[j].id # NoId
                           /\ wire[j + 1].part = "body"
                           /\ wire[j + 1].msg = wire[j].msg}}

\* the server answers a request it has read, once
ServerRespond ==
    /\ child[1] = "running"
    /\ nframes < MaxFrames
    /\ \E k \in RequestsOnWire \ served :
         /\ served' = served \cup {k}
         /\ stdout' = [stdout EXCEPT ![1] = Append(@, Frame(k, "", "r"))]
    /\ nframes' = nframes + 1
    /\ UNCHANGED <<run_id, inner, lock, nsess, child, next_id, pending, stdin,
                   reader, chans, hs, pl, gen, th, emitted, calls>>
    /\ UNCHANGED <<sr, wlock, wire, acq, sends, otherVars>>

\* an id no request of the model takes
UnusedId == MaxSends + 1

\* the server prints a textDocument/publishDiagnostics frame with params:
\* the notification, or the same frame with an id that no request bears
ServerPublishes(id) ==
    /\ child[1] = "running"
    /\ nframes < MaxFrames
    /\ stdout' = [stdout EXCEPT ![1] = Append(@, Frame(id, DIAG, "d"))]
    /\ nframes' = nframes + 1
    /\ UNCHANGED <<run_id, inner, lock, nsess, child, next_id, pending, stdin,
                   reader, chans, hs, pl, gen, th, emitted, calls>>
    /\ UNCHANGED <<sr, wlock, wire, acq, served, sends, otherVars>>

\* The client of one Session: two threads that send requests and
\* notifications, the server, which answers requests and may exit, and the
\* reader thread.
ClientNext ==
    \/ \E w \in Senders : ClSendRequest(w)
    \/ \E w \in Senders : ClSendNotification(w)
    \/ \E w \in Senders : ClInsert(w)
    \/ \E w \in Senders : ClLock(w)
    \/ \E w \in Senders : ClWriteHeader(w)
    \/ \E w \in Senders : ClWriteBody(w)
    \/ \E w \in Senders : ClRecv(w)
    \/ \E w \in Senders : ClTimeout(w)
    \/ ServerRespond
    \/ ChildExit(1)
    \/ ReaderStep(1)
    \/ ReaderEof(1)

ClientSpec == ClientInit /\ [][ClientNext]_vars

\* The reader of one Session whose server publishes diagnostics while
\* requests are in flight.
PublishNext ==
    \/ \E w \in Senders : ClSendRequest(w)
    \/ \E w \in Senders : ClInsert(w)
    \/ \E w \in Senders : ClLock(w)
    \/ \E w \in Senders : ClWriteHeader(w)
    \/ \E w \in Senders : ClWriteBody(w)
    \/ \E w \in Senders : ClRecv(w)
    \/ \E w \in Senders : ClTimeout(w)
    \/ ServerRespond
    \/ \E id \in {NoId, UnusedId} : ServerPublishes(id)
    \/ ReaderStep(1)

PublishSpec == ClientInit /\ [][PublishNext]_vars


\* ---------------------------------------------------------------- C21
\* a piece of the frame of a request is written to the pipe in this step
WritesRequest ==
    /\ Len(wire') = Len(wire) + 1
    /\ wire'[Len(wire')].id # NoId

\* the reader takes a frame with an id off the output of the child
ReaderTakesId ==
    /\ reader[1] = "running"
    /\ stdout[1] # <<>>
    /\ stdout'[1] = Tail(stdout[1])
    /\ Head(stdout[1]).ok
    /\ FrameId(Head(stdout[1])) # NoId

\* C21: the id of a request is in the pending table before any piece of its
\* frame is written to the pipe, so that the reader, when it reads the
\* response to a request, finds the slot of that request: no response is
\* lost between the registration and the delivery.
C21_RegisteredBeforeWritten ==
    /\ [][WritesRequest => wire'[Len(wire')].id \in DOMAIN pending[1]]_vars
    /\ [][ReaderTakesId =>
            /\ FrameId(Head(stdout[1])) \in DOMAIN pending[1]
            /\ FrameId(Head(stdout[1])) \notin DOMAIN pending'[1]]_vars

\* the response to the second request has been delivered to the thread that
\* waits for it, while the other thread is still writing its own request
C21_DeliveredWhileWriting ==
    \E w, v \in Senders :
       /\ sr[w].pc = "recv" /\ sr[w].id = 2
       /\ chans[Chan(1, 2)].q = <<Frame(2, "", "r")>>
       /\ 2 \notin DOMAIN pending[1]
       /\ sr[v].pc = "body" /\ sr[v].kind = "request"


\* ---------------------------------------------------------------- C22
\* thread t is inside send_request on Session s, waiting for the response
WaitsOn(t, s) == th[t].pc \in {"fmt_wait", "sp_wait"} /\ th[t].s = s

\* the ids held by the callers that wait inside send_request on Session s
\* are pairwise different, every id handed out lies in 1..next_id, and every
\* slot of the table of s holds the sender of a channel of s
C22_Unique ==
    \A s \in Sessions :
       /\ DOMAIN pending[s] \subseteq 1..next_id[s]
       /\ \A k \in DOMAIN pending[s] : pending[s][k] = Chan(s, k)
       /\ hs[s].id \in 0..next_id[s]
       /\ hs[s].pc = "wait" => hs[s].id >= 1
       /\ \A t \in Callers :
             WaitsOn(t, s) =>
                /\ th[t].id \in 1..next_id[s]
                /\ hs[s].pc = "wait" => th[t].id # hs[s].id
                /\ \A u \in Callers \ {t} :
                      WaitsOn(u, s) => th[u].id # th[t].id

\* a step that takes an id on Session s takes next_id + 1, which no slot
\* holds yet, hands it to the thread that called send_request, and touches
\* the counter and the table of no other Session
C22_Allocation ==
    \A s \in Sessions :
       next_id'[s] # next_id[s] =>
          /\ next_id'[s] = next_id[s] + 1
          /\ next_id'[s] \notin DOMAIN pending[s]
          /\ next_id'[s] \in DOMAIN pending'[s]
          /\ \/ hs[s].pc = "start" /\ hs'[s].id = next_id'[s]
             \/ \E t \in Callers :
                   th'[t] # th[t] /\ th'[t].s = s /\ th'[t].id = next_id'[s]
          /\ \A r \in Sessions \ {s} :
                next_id'[r] = next_id[r] /\ pending'[r] = pending[r]

\* the step that installs a new Session leaves its client as start_ls built
\* it: next_id 0, an empty table, no channel; and leaves the clients of the
\* earlier Sessions as they were
C22_FreshClient ==
    nsess' # nsess =>
       /\ nsess' = nsess + 1
       /\ next_id'[nsess'] = 0
       /\ pending'[nsess'] = EmptyPending
       /\ \A c \in DOMAIN chans' : c[1] # nsess'
       /\ next_id' = next_id /\ pending' = pending

\* C22: within one Session the request ids are unique and are handed out
\* in increasing order, one by one, from 1, also when several threads send
\* at the same time; a newly started Session starts again at 1 with an
\* empty pending table that shares nothing with the table of the Session
\* before it.
C22_IdsPerSession ==
    /\ []C22_Unique
    /\ [][C22_Allocation]_vars
    /\ [][C22_FreshClient]_vars

\* the first Session has handed out the ids 1 (initialize) and 2 (shutdown),
\* and the Session started after it has handed out its own id 1
C22_SecondSessionFromOne ==
    /\ nsess = 2
    /\ next_id[1] = 2
    /\ next_id[2] = 1
    /\ hs[2].id = 1
    /\ 1 \in DOMAIN pending[1]
    /\ 1 \in DOMAIN pending[2]


\* ---------------------------------------------------------------- C23
\* the receiver of channel c is not disconnected: a message is waiting in
\* the channel, or its sender is still in the pending table
Connected(c) ==
    \/ chans[c].q # <<>>
    \/ SenderAlive(pending, c)

\* every request that waits has its receiver connected, whatever has become
\* of its Session and of the child: recv_timeout has nothing to return but a
\* message or the timeout
C23_Connected ==
    /\ \A t \in Callers :
          th[t].pc \in {"fmt_wait", "sp_wait"} =>
             Connected(Chan(th[t].s, th[t].id))
    /\ \A s \in Sessions :
          hs[s].pc = "wait" => Connected(Chan(s, hs[s].id))

\* a wait ends with the message that is in the channel, or, with the sender
\* still in the table, with the timeout; a stop or an exit of the child ends
\* no wait
C23_EndOfWait ==
    /\ \A t \in Callers :
          (th[t].pc = "fmt_wait" /\ th'[t].pc # "fmt_wait") =>
             \/ /\ chans[Chan(th[t].s, th[t].id)].q # <<>>
                /\ th'[t].res = "response"
             \/ /\ chans[Chan(th[t].s, th[t].id)].q = <<>>
                /\ SenderAlive(pending, Chan(th[t].s, th[t].id))
                /\ th'[t].res = "timeout"
    /\ \A t \in Callers :
          (th[t].pc = "sp_wait" /\ th'[t].pc # "sp_wait") =>
             /\ Connected(Chan(th[t].s, th[t].id))
             /\ th'[t].pc = "sp_poll"
    /\ \A s \in Sessions :
          (hs[s].pc = "wait" /\ hs'[s].pc # "wait") =>
             /\ Connected(Chan(s, hs[s].id))
             /\ hs'[s].pc = "done"
             /\ HandshakeEmits(s)
    /\ \A c \in DOMAIN chans :
          (c \in DOMAIN chans' /\ chans[c].open /\ chans'[c].open) =>
             chans'[c] = chans[c]

\* some thread is inside send_request, waiting
SomeoneWaits ==
    \/ \E t \in Callers : th[t].pc \in {"fmt_wait", "sp_wait"}
    \/ \E s \in Sessions : hs[s].pc = "wait"

\* C23: a request that is waiting when its Session is stopped or its child
\* exits is not completed by the stop or the exit: its wait ends with the
\* timeout error (or with the response, if one was delivered); and every
\* send_request call returns in the end.
C23_WaitsEndByTimeout ==
    /\ []C23_Connected
    /\ [][C23_EndOfWait]_vars
    /\ []<>(~SomeoneWaits)

\* ls_stop has taken Session 1, stopped it and returned, and the initialize
\* request of Session 1 is still waiting, its slot in the table
C23_WaitingAfterStop ==
    \E t \in Callers :
       /\ th[t].op = "stop" /\ th[t].pc = "idle" /\ th[t].s = 1
       /\ inner = NoSession
       /\ child[1] # "running"
       /\ hs[1].pc = "wait"
       /\ hs[1].id \in DOMAIN pending[1]


\* ---------------------------------------------------------------- C24
\* the Session of child s has been discarded: the child was spawned, its
\* Session is not installed and no stop_process holds it
Discarded(s) ==
    /\ s \in 1..nsess
    /\ inner # s
    /\ \A t \in Callers : ~(th[t].pc \in StopPcs /\ th[t].s = s)

\* C24: on every path that discards a Session (ls_stop, an ls_start that
\* replaces it, the poller that detects the exit) the child is released with
\* its exit status collected; and no child is killed or reaped again once it
\* has been killed or reaped.
C24_DiscardedIsReaped ==
    /\ [](\A s \in Sessions : Discarded(s) => child[s] = "reaped")
    /\ [][\A s \in Sessions :
            child[s] \in {"killed", "reaped"} => child'[s] = child[s]]_vars


\* ---------------------------------------------------------------------------
\* Framing of JSON-RPC messages (ls/jsonrpc.rs)
\*
\* The stream is a sequence of bytes.  An ASCII byte is written as the
\* one-character string of its character; "CR", "LF", "SP" and "TAB" are the
\* bytes 13, 10, 32 and 9; "C3" and "A9" are the two bytes of the UTF-8
\* encoding of the character "e_acute" (U+00E9); "FFFD" is the replacement
\* character.  A text (a Rust String) is a sequence of characters.
\* serde_json is a library: to_string and from_str are taken over a small
\* set of values on which they are inverse of each other.
\* ---------------------------------------------------------------------------

NoLength == -1      \* content_length = None

Whitespace == {"SP", "TAB", "CR", "LF"}

DigitChars == <<"0", "1", "2", "3", "4", "5", "6", "7", "8", "9">>

\* the values written in the model
JsonValues ==
    { [t |-> "null"],
      [t |-> "str", s |-> <<"e_acute">>],
      [t |-> "obj", id |-> 12] }

RECURSIVE FormatUsize(_)
\* Display of a usize, as "{}" formats body.len()
FormatUsize(n) ==
    IF n < 10 THEN <<DigitChars[n + 1]>>
    ELSE FormatUsize(n \div 10) \o <<DigitChars[(n % 10) + 1]>>

\* serde_json::to_string
to_string(v) ==
    CASE v.t = "null" -> <<"n", "u", "l", "l">>

      [] v.t = "str" -> <<"\"">> \o v.s \o <<"\"">>
      [] v.t = "obj" -> <<"{", "\"", "i", "d", "\"", ":">> \o FormatUsize(v.id) \o <<"}">>

\* serde_json::from_str: the set of values the text denotes (empty: an error)
from_str(text) == {v \in JsonValues : to_string(v) = text}

\* the UTF-8 bytes of one character
Utf8(c) == IF c = "e_acute" THEN <<"C3", "A9">> ELSE <<c>>

RECURSIVE AsBytes(_)
\* String::as_bytes
AsBytes(text) ==
    IF text = <<>> THEN <<>> ELSE Utf8(Head(text)) \o AsBytes(Tail(text))

\* the length of the body counted in characters
BodyLenChars(body) == Len(body)

\* String::len, a number of bytes
BodyLen(body) == Len(AsBytes(body))

RECURSIVE FromUtf8Lossy(_)
\* String::from_utf8_lossy
FromUtf8Lossy(bytes) ==
    IF bytes = <<>> THEN <<>>
    ELSE IF Len(bytes) >= 2 /\ bytes[1] = "C3" /\ bytes[2] = "A9"
         THEN <<"e_acute">> \o FromUtf8Lossy(Tail(Tail(bytes)))
    ELSE IF Head(bytes) \in {"C3", "A9"}
         THEN <<"FFFD">> \o FromUtf8Lossy(Tail(bytes))
    ELSE <<Head(bytes)>> \o FromUtf8Lossy(Tail(bytes))

ContentLengthPrefix ==
    <<"C", "o", "n", "t", "e", "n", "t", "-", "L", "e", "n", "g", "t", "h", ":">>

\* the bytes write_message puts on the stream for the value v
WriteMessageBytes(v) ==
    LET body == to_string(v)
    IN  AsBytes(ContentLengthPrefix \o <<"SP">> \o FormatUsize(BodyLen(body))
                \o <<"CR", "LF", "CR", "LF">> \o body)


\* BufRead::read_line: up to and including the first LF; at the end of a
\* closed stream what is left; on an open stream without LF the call blocks
ReadLine(bytes, eof) ==
    LET lfs == {i \in 1..Len(bytes) : bytes[i] = "LF"}
    IN  IF lfs # {}
        THEN LET n == CHOOSE i \in lfs : \A j \in lfs : i <= j
             IN  [kind |-> "line", line |-> SubSeq(bytes, 1, n),
                  rest |-> SubSeq(bytes, n + 1, Len(bytes))]
        ELSE IF eof
        THEN [kind |-> "line", line |-> bytes, rest |-> <<>>]
        ELSE [kind |-> "blocked", line |-> <<>>, rest |-> bytes]

RECURSIVE TrimEndMatches(_, _)
\* str::trim_end_matches
TrimEndMatches(text, set) ==
    IF text # <<>> /\ text[Len(text)] \in set
    THEN TrimEndMatches(SubSeq(text, 1, Len(text) - 1), set)
    ELSE text

RECURSIVE TrimStart(_)
TrimStart(text) ==
    IF text # <<>> /\ Head(text) \in Whitespace THEN TrimStart(Tail(text))
    ELSE text

\* the text as it is
NoTrim(text) == text

\* str::trim
Trim(text) == TrimStart(TrimEndMatches(text, Whitespace))

\* str::strip_prefix: <<TRUE, rest>> or <<FALSE, <<>>>>
StripPrefix(text, prefix) ==
    IF Len(text) >= Len(prefix) /\ SubSeq(text, 1, Len(prefix)) = prefix
    THEN <<TRUE, SubSeq(text, Len(prefix) + 1, Len(text))>>
    ELSE <<FALSE, <<>>>>

DigitOf(c) == CHOOSE d \in 0..9 : DigitChars[d + 1] = c

RECURSIVE DigitsValue(_)
DigitsValue(text) ==
    IF text = <<>> THEN 0
    ELSE 10 * DigitsValue(SubSeq(text, 1, Len(text) - 1))
         + DigitOf(text[Len(text)])

\* str::parse::<usize>().ok(): an optional "+" and at least one digit
ParseUsize(text) ==
    LET digits == IF text # <<>> /\ Head(text) = "+" THEN Tail(text) ELSE text
    IN  IF digits # <<>>
           /\ \A i \in 1..Len(digits) : \E d \in 1..10 : DigitChars[d] = digits[i]
        THEN DigitsValue(digits)
        ELSE NoLength

RECURSIVE ReadHeaders(_, _, _)
\* the loop of read_message (jsonrpc.rs 17-30)
ReadHeaders(bytes, eof, content_length) ==
    LET r == ReadLine(bytes, eof)
    IN  IF r.kind = "blocked" THEN [kind |-> "blocked"]
        ELSE IF "FFFD" \in {FromUtf8Lossy(r.line)[i] : i \in 1..Len(FromUtf8Lossy(r.line))}
        THEN [kind |-> "InvalidData", rest |-> r.rest]
        ELSE IF Len(r.line) = 0 THEN [kind |-> "none", rest |-> r.rest]
        ELSE LET trimmed == TrimEndMatches(FromUtf8Lossy(r.line), {"CR", "LF"})
                 value == StripPrefix(trimmed, ContentLengthPrefix)
             IN  IF trimmed = <<>>
                 THEN [kind |-> "break", len |-> content_length, rest |-> r.rest]
                 ELSE ReadHeaders(r.rest, eof,
                                  IF value[1] THEN ParseUsize(Trim(value[2]))
                                  ELSE content_length)

\* read_message: what the call returns and what it leaves on the stream
ReadMessage(bytes, eof) ==
    LET h == ReadHeaders(bytes, eof, NoLength)
    IN  IF h.kind \in {"blocked", "none", "InvalidData"} THEN h
        ELSE IF h.len = NoLength THEN [kind |-> "InvalidData", rest |-> h.rest]
        ELSE IF Len(h.rest) < h.len
        THEN IF eof THEN [kind |-> "UnexpectedEof", rest |-> <<>>]
             ELSE [kind |-> "blocked"]
        ELSE LET text == FromUtf8Lossy(SubSeq(h.rest, 1, h.len))
                 rest == SubSeq(h.rest, h.len + 1, Len(h.rest))
             IN  IF from_str(text) = {} THEN [kind |-> "InvalidData", rest |-> rest]
                 ELSE [kind |-> "some", value |-> CHOOSE v \in from_str(text) : TRUE,
                       rest |-> rest]


\* how the header block of a frame on the stream is written
HeaderForms == {"writer", "spaced", "second", "absent", "blank"}

\* the header block of a frame whose body has len bytes
HeaderBytes(form, len) ==
    CASE form = "writer" ->
            ContentLengthPrefix \o <<"SP">> \o FormatUsize(len)
                \o <<"CR", "LF", "CR", "LF">>
      [] form = "spaced" ->
            ContentLengthPrefix \o <<"SP", "TAB", "SP">> \o FormatUsize(len)
                \o <<"SP", "TAB", "CR", "LF", "CR", "LF">>
      [] form = "second" ->
            <<"X", "-", "A", ":", "SP", "1", "CR", "LF">>
                \o ContentLengthPrefix \o FormatUsize(len)
                \o <<"CR", "LF", "CR", "LF">>
      [] form = "absent" ->
            <<"X", "-", "A", ":", "SP", "1", "CR", "LF", "CR", "LF">>
      [] form = "blank" -> <<"CR", "LF">>

\* the bytes of one frame
FrameBytes(f) ==
    IF f.form = "writer" THEN WriteMessageBytes(f.value)
    ELSE HeaderBytes(f.form, Len(AsBytes(to_string(f.value))))
             \o AsBytes(to_string(f.value))

RECURSIVE FramesBytes(_)
FramesBytes(fs) ==
    IF fs = <<>> THEN <<>> ELSE FrameBytes(Head(fs)) \o FramesBytes(Tail(fs))

\* what the steps on the stream leave alone
notCodec == <<lsVars, clVars, parserVars, launchVars, moreVars>>

\* JsonRpcWriter::write_message(v)
WriteMessage(v) ==
    /\ ~closed
    /\ Len(written) < MaxMsgs
    /\ stream' = stream \o WriteMessageBytes(v)
    /\ written' = Append(written, [form |-> "writer", value |-> v])
    /\ UNCHANGED <<closed, results, notCodec>>

\* the other end of the stream writes a frame with a header block of its own
PeerWrites(form, v) ==
    /\ form # "writer"
    /\ ~closed
    /\ Len(written) < MaxMsgs
    /\ stream' = stream \o FrameBytes([form |-> form, value |-> v])
    /\ written' = Append(written, [form |-> form, value |-> v])
    /\ UNCHANGED <<closed, results, notCodec>>

\* the writing end is closed: the reader sees the end of the stream
CloseStream ==
    /\ ~closed
    /\ closed' = TRUE
    /\ UNCHANGED <<stream, written, results, notCodec>>

\* one call of JsonRpcReader::read_message that returns
ReadMessageCall ==
    LET r == ReadMessage(stream, closed)
    IN  /\ Len(results) <= MaxMsgs
        /\ r.kind # "blocked"
        /\ stream' = r.rest
        /\ results' = Append(results,
               IF r.kind = "some" THEN [kind |-> "some", value |-> r.value]
               ELSE [kind |-> r.kind, value |-> [t |-> "null"]])
        /\ UNCHANGED <<closed, written, notCodec>>

CodecNext ==
    \/ \E v \in JsonValues : WriteMessage(v)
    \/ \E form \in HeaderForms, v \in JsonValues : PeerWrites(form, v)
    \/ CloseStream
    \/ ReadMessageCall

CodecSpec == Init /\ [][CodecNext]_vars


\* ---------------------------------------------------------------------------
\* C25: what write_message writes, read_message reads back: on a stream that
\* holds only frames written by write_message, the i-th read returns Some of
\* the i-th value written, each read consumes exactly one frame, and a read
\* after the last frame returns None (which it does once the stream is
\* closed).
\* ---------------------------------------------------------------------------

OnlyWritten == \A i \in 1..Len(written) : written[i].form = "writer"

\* the frames no read has consumed yet
Unread == SubSeq(written, Len(results) + 1, Len(written))

C25_RoundTrip ==
    OnlyWritten =>
        /\ \A i \in 1..Len(results) :
              IF i <= Len(written)
              THEN results[i] = [kind |-> "some", value |-> written[i].value]
              ELSE closed /\ results[i].kind = "none"
        /\ stream = FramesBytes(Unread)

\* two different values, one of them with a character of two bytes, were
\* written back to back and read back, and a third read met the end
C25_TwoReadThenNone ==
    /\ OnlyWritten
    /\ Len(written) = 2
    /\ written[1].value = [t |-> "str", s |-> <<"e_acute">>]
    /\ written[2].value = [t |-> "obj", id |-> 12]
    /\ Len(results) = 3
    /\ results[3].kind = "none"


\* ---------------------------------------------------------------------------
\* C26: a read that starts at a frame whose Content-Length value has
\* whitespace around it returns the value of the frame and consumes the
\* header block and exactly the bytes of the body; a read that starts at a
\* header block without a Content-Length line fails with InvalidData.
\* ---------------------------------------------------------------------------

\* the reader stands at the start of a frame
AtFrame == Unread # <<>> /\ stream = FramesBytes(Unread)

C26_PaddedAndMissing ==
    ReadMessageCall /\ AtFrame =>
        LET f == Head(Unread)
            r == results'[Len(results')]
        IN  /\ f.form = "spaced" =>
                /\ r = [kind |-> "some", value |-> f.value]
                /\ stream' = FramesBytes(Tail(Unread))
            /\ f.form \in {"absent", "blank"} => r.kind = "InvalidData"

C26_LengthHeader == [][C26_PaddedAndMissing]_vars

\* a frame with a padded length was read and the header block without a
\* length that followed it was rejected
C26_PaddedReadMissingRejected ==
    /\ Len(written) = 2
    /\ written[1] = [form |-> "spaced", value |-> [t |-> "str", s |-> <<"e_acute">>]]
    /\ written[2].form = "absent"
    /\ Len(results) = 2
    /\ results[1] = [kind |-> "some", value |-> written[1].value]
    /\ results[2].kind = "InvalidData"


\* ---------------------------------------------------------------------------
\* C27: the pieces of a frame reach the pipe one frame at a time: a piece
\* is written by the thread that holds the mutex of stdin, the body of a
\* frame comes right after the header of the same frame, nothing comes
\* between them, and the frames are on the pipe in the order in which their
\* writers acquired the mutex.
\* ---------------------------------------------------------------------------

\* the place of message m in the order of the acquisitions
Acquired(m) == CHOOSE k \in 1..Len(acq) : acq[k] = m

C27_Framed ==
    \A i \in 1..Len(wire) :
       /\ wire[i].part = "body" =>
             /\ i > 1
             /\ wire[i - 1].part = "header"
             /\ wire[i - 1].msg = wire[i].msg
       /\ wire[i].part = "header" /\ i < Len(wire) =>
             /\ wire[i + 1].part = "body"
             /\ wire[i + 1].msg = wire[i].msg

C27_InLockOrder ==
    \A i, j \in 1..Len(wire) :
       i < j /\ wire[i].part = "header" /\ wire[j].part = "header" =>
          /\ \E k \in 1..Len(acq) : acq[k] = wire[i].msg
          /\ \E k \in 1..Len(acq) : acq[k] = wire[j].msg
          /\ Acquired(wire[i].msg) < Acquired(wire[j].msg)

C27_WrittenByHolder ==
    wire' # wire =>
        /\ wlock # NoSender
        /\ wire' = Append(wire, wire'[Len(wire')])
        /\ wire'[Len(wire')].msg = sr[wlock].msg

C27_FramesNotInterleaved ==
    /\ []C27_Framed
    /\ []C27_InLockOrder
    /\ [][C27_WrittenByHolder]_vars

\* one frame is on the pipe whole, a second thread has written the header
\* of its frame and holds the mutex, and another thread waits for the mutex
C27_WaitsForTheMutex ==
    \E w1, w2 \in Senders :
       /\ w1 # w2
       /\ wlock = w1
       /\ sr[w1].pc = "body"
       /\ sr[w2].pc = "lock"
       /\ Len(wire) = 3
       /\ wire[3] = Chunk(sr[w1].msg, "header", sr[w1].id)


\* ====================================================================
\* The parser bridge (parser_io.rs): one bridge process at most is
\* installed in ParserBridgeState.current; parser_send_raw sends one line
\* to it and reads one line back, under the mutex of current, and starts a
\* new bridge once when the attempt fails.  The bridge is a process of its
\* own: it may answer a request, exit, or do neither.
\* ====================================================================

\* what the steps of the parser bridge leave alone
notParser == <<lsVars, clVars, codecVars, launchVars, moreVars>>

\* a command calls parser_send_raw: the payload is built and the loop starts
\* with attempt 0
ParserSendRaw(c) ==
    /\ ps[c].pc = "idle"
    /\ pcalls < MaxParserCalls
    /\ pcalls' = pcalls + 1
    /\ ps' = [ps EXCEPT ![c] = [IdleParserCaller EXCEPT !.pc = "lock"]]
    /\ UNCHANGED <<current, guard, bridges, notParser>>

\* `state.current.lock()` (394-397)
PsLock(c) ==
    /\ ps[c].pc = "lock"
    /\ guard = NoCaller
    /\ guard' = c
    /\ ps' = [ps EXCEPT ![c].pc = "ensure"]
    /\ UNCHANGED <<current, bridges, pcalls, notParser>>

\* `if guard.is_none() { *guard = Some(spawn_parser_bridge(app)?) }`
\* (399-401): a bridge is installed already, or one is spawned and
\* installed, or the spawn fails and the function returns its error
PsEnsure(c) ==
    /\ ps[c].pc = "ensure"
    /\ \/ /\ current # NoBridge
          /\ ps' = [ps EXCEPT ![c].pc = "write", ![c].b = current]
          /\ UNCHANGED <<current, guard, bridges>>
       \/ /\ current = NoBridge
          /\ \E b \in Bridges :
                /\ bridges[b].st = "none"
                /\ \A k \in Bridges : k < b => bridges[k].st # "none"
                /\ bridges' = [bridges EXCEPT ![b].st = "running"]
                /\ current' = b
                /\ ps' = [ps EXCEPT ![c].pc = "write", ![c].b = b,
                                    ![c].spawned = @ + 1]
          /\ UNCHANGED guard
       \/ /\ current = NoBridge
          /\ ps' = [ps EXCEPT ![c].pc = "idle", ![c].res = "spawn error",
                              ![c].spawned = @ + 1]
          /\ guard' = NoCaller
          /\ UNCHANGED <<current, bridges>>
    /\ UNCHANGED <<pcalls, notParser>>

\* parser_send_once: write_all of the payload and of the newline, flush
\* (357-368); the write fails when the bridge has exited
PsWrite(c) ==
    /\ ps[c].pc = "write"
    /\ IF bridges[ps[c].b].st = "running"
       THEN /\ bridges' = [bridges EXCEPT ![ps[c].b].got = @ + 1]
            /\ ps' = [ps EXCEPT ![c].pc = "read", ![c].attempts = @ + 1]
       ELSE /\ ps' = [ps EXCEPT ![c].pc = "failed", ![c].attempts = @ + 1]
            /\ UNCHANGED bridges
    /\ UNCHANGED <<current, guard, pcalls, notParser>>

\* parser_send_once: `session.stdout.read_line(&mut response)` (370-382)
\* returns a line, or 0 bytes when the bridge has closed its stdout; till
\* then the call blocks.  With a line, parser_send_raw drops the guard and
\* returns (411-421): Ok(raw), or the error the bridge reported in it.
PsRead(c) ==
    /\ ps[c].pc = "read"
    /\ \/ /\ bridges[ps[c].b].out > 0
          /\ bridges' = [bridges EXCEPT ![ps[c].b].out = @ - 1]
          /\ \E r \in {"ok", "bridge failed"} :
                ps' = [ps EXCEPT ![c].pc = "idle", ![c].res = r]
          /\ guard' = NoCaller
       \/ /\ bridges[ps[c].b].out = 0
          /\ bridges[ps[c].b].st = "exited"
          /\ ps' = [ps EXCEPT ![c].pc = "failed"]
          /\ UNCHANGED <<bridges, guard>>
    /\ UNCHANGED <<current, pcalls, notParser>>

\* Child::kill, Child::wait and Child::try_wait on a process that is
\* "running", "exited" (ended and not waited for) or "reaped"
Kill(st) == IF st = "running" THEN "exited" ELSE st
Wait(st) == "reaped"
TryWait(st) == IF st = "exited" THEN "reaped" ELSE st

\* dropping a std::process::Child leaves the process as it is
ChildDrop(st) == st

\* Drop for ParserBridgeSession (279-289) and for JshellSession
\* (jshell_io.rs 97-107): try_wait, and kill and wait unless it answered
\* Ok(Some(_))
SessionDrop(st) ==
    IF TryWait(st) = "reaped" THEN "reaped" ELSE Wait(Kill(TryWait(st)))

\* the session of bridge b is dropped
DropSession(b) == [bridges EXCEPT ![b].st = SessionDrop(@)]

\* the attempt failed (422-424): `let _ = guard.take()` drops the session
PsTake(c) ==
    /\ ps[c].pc = "failed"
    /\ bridges' = DropSession(current)
    /\ current' = NoBridge
    /\ ps' = [ps EXCEPT ![c].pc = "release"]
    /\ UNCHANGED <<guard, pcalls, notParser>>

\* `drop(guard)` (425), and then the next attempt if this was attempt 0, and
\* `Err(last_error)` (433) if it was the last one
PsRelease(c) ==
    /\ ps[c].pc = "release"
    /\ guard' = NoCaller
    /\ IF ps[c].attempt + 1 < PARSER_SEND_MAX_ATTEMPTS
       THEN ps' = [ps EXCEPT ![c].pc = "lock", ![c].attempt = @ + 1]
       ELSE ps' = [ps EXCEPT ![c].pc = "idle", ![c].res = "transport error"]
    /\ UNCHANGED <<current, bridges, pcalls, notParser>>

\* the bridge answers a request it has received with one line
BridgeAnswers(b) ==
    /\ bridges[b].st = "running"
    /\ bridges[b].got > 0
    /\ bridges' = [bridges EXCEPT ![b].got = @ - 1, ![b].out = @ + 1]
    /\ UNCHANGED <<current, guard, ps, pcalls, notParser>>

\* the bridge exits: its stdout is closed
BridgeExits(b) ==
    /\ bridges[b].st = "running"
    /\ bridges' = [bridges EXCEPT ![b].st = "exited"]
    /\ UNCHANGED <<current, guard, ps, pcalls, notParser>>

\* shutdown_parser_bridge (516-528)
ShutdownParserBridge ==
    /\ guard = NoCaller
    /\ current # NoBridge
    /\ bridges' = DropSession(current)
    /\ current' = NoBridge
    /\ UNCHANGED <<guard, ps, pcalls, notParser>>

\* the steps of the calls of parser_send_raw
ParserCallSteps ==
    \E c \in ParserCallers :
       \/ PsLock(c)
       \/ PsEnsure(c)
       \/ PsWrite(c)
       \/ PsRead(c)
       \/ PsTake(c)
       \/ PsRelease(c)

ParserNext ==
    \/ \E c \in ParserCallers : ParserSendRaw(c)
    \/ ParserCallSteps
    \/ \E b \in Bridges : BridgeAnswers(b) \/ BridgeExits(b)
    \/ ShutdownParserBridge

ParserSpec == Init /\ [][ParserNext]_vars

\* a call that has started takes its next step when it can
ParserFairSpec == ParserSpec /\ WF_vars(ParserCallSteps)


\* ---------------------------------------------------------------------------
\* C28: a call of parser_send_raw calls parser_send_once at most
\* PARSER_SEND_MAX_ATTEMPTS times and spawn_parser_bridge at most twice; the
\* bridge of a failed attempt is taken out of current and reaped before the
\* mutex is released, so that a call that returns the error of the
\* transport leaves no bridge installed; and every call returns.
\* ---------------------------------------------------------------------------

C28_Bounded ==
    \A c \in ParserCallers :
       /\ ps[c].attempts <= PARSER_SEND_MAX_ATTEMPTS
       /\ ps[c].spawned <= 2

C28_Removed ==
    \A c \in ParserCallers :
       /\ ps[c].pc = "release" /\ ps'[c].pc # "release" =>
             /\ current = NoBridge
             /\ bridges[ps[c].b].st = "reaped"
       /\ ps[c].pc # "idle" /\ ps'[c].pc = "idle"
             /\ ps'[c].res = "transport error" => current' = NoBridge

C28_Returns ==
    \A c \in ParserCallers : (ps[c].pc # "idle") ~> (ps[c].pc = "idle")

C28_BoundedRetry ==
    /\ []C28_Bounded
    /\ [][C28_Removed]_vars
    /\ C28_Returns

\* the part of C28 that does not depend on the bridge answering
C28_BoundedAndRemoved == []C28_Bounded /\ [][C28_Removed]_vars

\* a call waits for the line of a bridge that runs, has taken the request
\* and has nothing to say
C28_WaitsForSilentBridge ==
    \E c \in ParserCallers :
       /\ ps[c].pc = "read"
       /\ guard = c
       /\ bridges[ps[c].b].st = "running"
       /\ bridges[ps[c].b].out = 0


\* ====================================================================
\* The paths to open taken from the command line (launch_io.rs).  An
\* argument is a text, written as the sequence of its characters in the
\* notation of the framing model ("SP" is the space, "TAB" the tab, "GRAVE"
\* the grave accent).  The
\* paths are built as on a system that is not Windows (73-76).
\* ====================================================================

\* the characters 32..126 of ASCII, in order
PrintableAscii ==
    <<"SP", "!", "\"", "#", "$", "%", "&", "'", "(", ")", "*", "+", ",", "-",
    ".", "/", "0", "1", "2", "3", "4", "5", "6", "7", "8", "9", ":", ";",
    "<", "=", ">", "?", "@", "A", "B", "C", "D", "E", "F", "G", "H", "I",
    "J", "K", "L", "M", "N", "O", "P", "Q", "R", "S", "T", "U", "V", "W",
    "X", "Y", "Z", "[", "\\", "]", "^", "_", "GRAVE", "a", "b", "c", "d", "e",
    "f", "g", "h", "i", "j", "k", "l", "m", "n", "o", "p", "q", "r", "s",
    "t", "u", "v", "w", "x", "y", "z", "{", "|", "}", "~" >>

UpperChars ==
    <<"A", "B", "C", "D", "E", "F", "G", "H", "I", "J", "K", "L", "M", "N",
    "O", "P", "Q", "R", "S", "T", "U", "V", "W", "X", "Y", "Z" >>

LowerChars ==
    <<"a", "b", "c", "d", "e", "f", "g", "h", "i", "j", "k", "l", "m", "n",
    "o", "p", "q", "r", "s", "t", "u", "v", "w", "x", "y", "z" >>

HexChars ==
    <<"0", "1", "2", "3", "4", "5", "6", "7", "8", "9", "a", "b", "c", "d",
    "e", "f" >>

NoDigit == -1      \* char::to_digit returned None

\* the result None of a function that returns an Option of a text
None == [some |-> FALSE, text |-> <<>>]

Some(text) == [some |-> TRUE, text |-> text]

\* u8::to_ascii_lowercase
AsciiLower(c) ==
    IF \E k \in 1..26 : UpperChars[k] = c
    THEN LowerChars[CHOOSE k \in 1..26 : UpperChars[k] = c]
    ELSE c



\* str::to_ascii_lowercase
ToAsciiLowercase(text) == [i \in 1..Len(text) |-> AsciiLower(text[i])]

\* str::eq_ignore_ascii_case
EqIgnoreAsciiCase(a, b) ==
    /\ Len(a) = Len(b)
    /\ \A i \in 1..Len(a) : AsciiLower(a[i]) = AsciiLower(b[i])

\* char::to_digit(16)
ToDigit16(c) ==
    IF \E k \in 1..16 : HexChars[k] = AsciiLower(c)
    THEN (CHOOSE k \in 1..16 : HexChars[k] = AsciiLower(c)) - 1
    ELSE NoDigit

\* the byte n as it stands in a text: the character of an ASCII byte, the
\* two bytes of "e_acute", and a byte that is no text for the others
ByteOf(n) ==
    IF n >= 32 /\ n <= 126 THEN PrintableAscii[n - 31]
    ELSE IF n = 195 THEN "C3"
    ELSE IF n = 169 THEN "A9"
    ELSE IF n = 9 THEN "TAB"
    ELSE IF n = 10 THEN "LF"
    ELSE IF n = 13 THEN "CR"
    ELSE "FFFD"

RECURSIVE PercentDecodeBytes(_)
\* the loop of percent_decode (22-36)
PercentDecodeBytes(input) ==
    IF input = <<>> THEN <<>>
    ELSE IF /\ input[1] = "%"
            /\ Len(input) > 2
            /\ ToDigit16(input[2]) # NoDigit
            /\ ToDigit16(input[3]) # NoDigit
    THEN <<ByteOf(16 * ToDigit16(input[2]) + ToDigit16(input[3]))>>
             \o PercentDecodeBytes(SubSeq(input, 4, Len(input)))
    ELSE <<Head(input)>> \o PercentDecodeBytes(Tail(input))

\* percent_decode
PercentDecode(input) == FromUtf8Lossy(PercentDecodeBytes(input))

FilePrefix == <<"f", "i", "l", "e", ":", "/", "/">>

LocalhostPrefix == <<"l", "o", "c", "a", "l", "h", "o", "s", "t", "/">>

\* str::get(..n): the first n bytes, if there are that many
GetPrefix(text, n) == IF Len(text) >= n THEN Some(SubSeq(text, 1, n)) ELSE None

\* parse_file_uri_path
ParseFileUriPath(raw) ==
    IF ~(/\ GetPrefix(raw, Len(FilePrefix)).some
         /\ EqIgnoreAsciiCase(GetPrefix(raw, Len(FilePrefix)).text, FilePrefix))
    THEN None
    ELSE LET afterPrefix == SubSeq(raw, Len(FilePrefix) + 1, Len(raw))
             body == IF /\ GetPrefix(afterPrefix, 10).some
                        /\ EqIgnoreAsciiCase(GetPrefix(afterPrefix, 10).text,
                                             LocalhostPrefix)
                     THEN SubSeq(afterPrefix, 11, Len(afterPrefix))
                     ELSE afterPrefix
         IN  IF body = <<>> THEN None ELSE Some(PercentDecode(body))

RECURSIVE TrimStartMatches(_, _)
TrimStartMatches(text, set) ==
    IF text # <<>> /\ Head(text) \in set
    THEN TrimStartMatches(Tail(text), set)
    ELSE text

\* str::trim_matches
TrimMatches(text, set) == TrimStartMatches(TrimEndMatches(text, set), set)

RECURSIVE FileName(_)
\* Path::file_name: the last component of the path, if it is a name
FileName(path) ==
    LET stripped == TrimEndMatches(path, {"/"})
        seps == {i \in 1..Len(stripped) : stripped[i] = "/"}
        from == IF seps = {} THEN 1
                ELSE 1 + CHOOSE i \in seps : \A j \in seps : j <= i
        name == SubSeq(stripped, from, Len(stripped))
    IN  IF stripped = <<>> THEN None
        ELSE IF name = <<".">> THEN FileName(SubSeq(stripped, 1, from - 1))
        ELSE IF name = <<".", ".">> THEN None
        ELSE Some(name)

\* Path::extension: what follows the last dot of the file name, if the name
\* has a dot that is not its first character
Extension(path) ==
    LET name == FileName(path).text
        dots == {i \in 1..Len(name) : name[i] = "."}
        last == CHOOSE i \in dots : \A j \in dots : j <= i
    IN  IF ~FileName(path).some \/ dots = {} THEN None
        ELSE IF last = 1 THEN None
        ELSE Some(SubSeq(name, last + 1, Len(name)))

\* parse_launch_umz_arg that takes an argument that starts with "-" for a
\* path.  C29_CollectsUmzArguments rules it out.
ParseLaunchUmzArgFlags(raw) ==
    LET trimmed == TrimMatches(Trim(raw), {"\""})
        path == IF ParseFileUriPath(trimmed).some
                THEN ParseFileUriPath(trimmed).text
                ELSE trimmed
    IN  IF trimmed = <<>> THEN None
        ELSE IF ~(/\ Extension(path).some
                  /\ ToAsciiLowercase(Extension(path).text) = <<"u", "m", "z">>)
        THEN None
        ELSE Some(path)

\* parse_launch_umz_arg
ParseLaunchUmzArg(raw) ==
    LET trimmed == TrimMatches(Trim(raw), {"\""})
        path == IF ParseFileUriPath(trimmed).some
                THEN ParseFileUriPath(trimmed).text
                ELSE trimmed
    IN  IF trimmed = <<>> \/ Head(trimmed) = "-" THEN None
        ELSE IF ~(/\ Extension(path).some
                  /\ ToAsciiLowercase(Extension(path).text) = <<"u", "m", "z">>)
        THEN None
        ELSE Some(path)

RECURSIVE CollectUmzPathsFromArgs(_)
\* collect_umz_paths_from_args: filter_map and collect
CollectUmzPathsFromArgs(items) ==
    IF items = <<>> THEN <<>>
    ELSE (IF ParseLaunchUmzArg(Head(items)).some
          THEN <<ParseLaunchUmzArg(Head(items)).text>>
          ELSE <<>>) \o CollectUmzPathsFromArgs(Tail(items))

\* the arguments the command lines of the model are made of
LaunchArgs ==
    { \* a plain path
      <<"a", ".", "u", "m", "z">>,
      \* quotes and whitespace around the path, the extension in capitals
      <<"SP", "\"", "b", ".", "U", "M", "Z", "\"", "TAB">>,
      \* a flag
      <<"-", "f", ".", "u", "m", "z">>,
      \* a flag in quotes
      <<"\"", "-", "f", ".", "u", "m", "z", "\"">>,
      \* another extension
      <<"a", ".", "j", "a", "v", "a">>,
      \* the empty argument
      <<>>,
      \* nothing but whitespace and quotes
      <<"SP", "\"", "\"", "SP">>,
      \* a file name that is all extension
      <<".", "u", "m", "z">>,
      \* whitespace inside the quotes
      <<"\"", "SP", "a", ".", "u", "m", "z", "SP", "\"">>,
      \* a file URI with an escape
      <<"f", "i", "l", "e", ":", "/", "/", "/", "d", "/", "a", "%", "2", "0", "b", ".", "U", "m", "z">>,
      \* a file URI with a host, the dot escaped
      <<"F", "I", "L", "E", ":", "/", "/", "l", "o", "c", "a", "l", "h", "o", "s", "t", "/", "c", "%", "2", "e", "u", "m", "z">>,
      \* a file URI with another extension
      <<"f", "i", "l", "e", ":", "/", "/", "/", "d", "/", "a", ".", "t", "x", "t">>,
      \* a path that ends in a separator and a dot
      <<"d", ".", "u", "m", "z", "/", ".">> }

RECURSIVE ArgLists(_)
\* the command lines of at most n arguments
ArgLists(n) ==
    IF n = 0 THEN {<<>>}
    ELSE ArgLists(n - 1)
         \cup {Append(l, a) : l \in {k \in ArgLists(n - 1) : Len(k) = n - 1},
                              a \in LaunchArgs}

\* the application has been started with a command line
LaunchInit ==
    /\ NothingStarted
    /\ NothingSent
    /\ NothingFramed
    /\ NothingParsed
    /\ NothingMore
    /\ args \in ArgLists(MaxArgs)
    /\ paths = <<>>
    /\ collected = FALSE

\* collect_startup_umz_paths
CollectStartupUmzPaths ==
    /\ ~collected
    /\ paths' = CollectUmzPathsFromArgs(args)
    /\ collected' = TRUE
    /\ UNCHANGED <<args, lsVars, clVars, codecVars, parserVars, moreVars>>

LaunchSpec == LaunchInit /\ [][CollectStartupUmzPaths]_vars


\* ---------------------------------------------------------------------------
\* C29: collect_umz_paths_from_args keeps, in the order of the arguments,
\* the arguments that name a .umz file and drops the others.  An argument
\* names a .umz file when what is left of it, once the whitespace and then
\* the double quotes around it are taken away, is not empty, does not start
\* with "-", and, read as a file:// URI if it is one and as a path if not,
\* has the extension "umz" in capitals or in small letters.  What is
\* returned for such an argument is that path.
\* ---------------------------------------------------------------------------

Unquoted(raw) == TrimMatches(Trim(raw), {"\""})

PathNamed(raw) ==
    IF ParseFileUriPath(Unquoted(raw)).some
    THEN ParseFileUriPath(Unquoted(raw)).text
    ELSE Unquoted(raw)

NamesUmz(raw) ==
    /\ Unquoted(raw) # <<>>
    /\ Head(Unquoted(raw)) # "-"
    /\ Extension(PathNamed(raw)).some
    /\ EqIgnoreAsciiCase(Extension(PathNamed(raw)).text, <<"u", "m", "z">>)

C29_CollectsUmzArguments ==
    collected =>
        LET kept == SelectSeq(args, NamesUmz)
        IN  paths = [i \in 1..Len(kept) |-> PathNamed(kept[i])]

\* of a flag that ends in .umz and a file URI with an escape and the
\* extension in mixed case, the path of the URI alone was returned
C29_FlagDroppedUriKept ==
    /\ collected
    /\ Len(args) = 2
    /\ args[1] = <<"-", "f", ".", "u", "m", "z">>
    /\ args[2] = <<"f", "i", "l", "e", ":", "/", "/", "/", "d", "/", "a", "%",
                   "2", "0", "b", ".", "U", "m", "z">>
    /\ paths = <<<<"/", "d", "/", "a", "SP", "b", ".", "U", "m", "z">>>>


\* ---------------------------------------------------------------------------
\* C30: the poller that an ls_start has created clears no Session but the
\* one that ls_start has installed, and the ls_crashed event it emits, which
\* carries the root of that ls_start, is about the Session whose exit it
\* has seen.
\* ---------------------------------------------------------------------------

\* the Session poller s has cleared is its own
ClearsOwn(s) == pl[s].saw \in {NoSession, s}

\* the event poller s is about to emit is about the Session it has cleared
ReportsOwn(s) == pl[s].pc = "emit" => pl[s].saw = s

C30_PollerOwnSession == \A s \in Sessions : ClearsOwn(s) /\ ReportsOwn(s)

\* the part of C30 about the events: two ls_start calls that take the lock
\* in the reverse order of their fetch_add leave the Session of the one
\* under the poller of the other
C30_ReportsOwn == \A s \in Sessions : ReportsOwn(s)


\* ---------------------------------------------------------------------------
\* C31: when the reader takes a frame that has an id and a method (a request
\* of the server), the pending table and every channel stay as they are,
\* whatever the id, and the reader goes on.
\* ---------------------------------------------------------------------------

\* the frame the reader of Session s takes next is a request of the server
ServerRequestFrame(s) ==
    /\ Head(stdout[s]).ok
    /\ Head(stdout[s]).id # NoId
    /\ Head(stdout[s]).method # ""

C31_ServerRequestNotDelivered ==
    [][\A s \in Sessions :
         (ReaderTakes(s) /\ ServerRequestFrame(s)) =>
            /\ pending' = pending
            /\ chans' = chans
            /\ reader'[s] = "running"]_vars

\* the part of C31 about the reader: a request of the server does not stop it
C31_ReaderGoesOn ==
    [][\A s \in Sessions :
         (ReaderTakes(s) /\ ServerRequestFrame(s)) => reader'[s] = "running"]_vars


\* ---------------------------------------------------------------------------
\* C32: the first frame written to the stdin of a Session is the initialize
\* request of its handshake: while the handshake has not written it, no
\* send command writes a frame to the Session.
\* ---------------------------------------------------------------------------

C32_InitializeFirst ==
    [][\A s \in Sessions :
         (hs[s].pc = "start" /\ stdin'[s] # stdin[s]) =>
            stdin'[s].last.method = "initialize"]_vars


\* ---------------------------------------------------------------------------
\* C33: once a send_request whose write has failed has returned the error of
\* the write, the id it took is not in the pending table of its Session.
\* ---------------------------------------------------------------------------

\* the send_request of thread t has returned the error of its write
WriteFailed(t) ==
    /\ th[t].pc = "idle"
    /\ th[t].op = "format"
    /\ th[t].res = "write error"

C33_FailedWriteLeavesNoSlot ==
    \A t \in Callers :
       WriteFailed(t) => th[t].id \notin DOMAIN pending[th[t].s]

\* the part of C33 about the result: a send_request on a Session whose
\* child has ended returns the error of the write
C33_ReturnsWriteError ==
    [][\A t \in Callers :
         (FormatCall(t) /\ inner # NoSession /\ ~WriteOk(inner)) =>
            WriteFailed(t)']_vars


\* ---------------------------------------------------------------------------
\* C34: when the reader takes a decoded frame whose method is
\* textDocument/publishDiagnostics, which has params, and whose id, if it
\* has one, is the id of no pending request, one ls_diagnostics event with
\* these params is emitted.
\* ---------------------------------------------------------------------------

\* the frame the reader of Session s takes next publishes diagnostics and
\* answers no pending request
UnmatchedDiagnostics(s) ==
    /\ Head(stdout[s]).ok
    /\ Head(stdout[s]).method = DIAG
    /\ Head(stdout[s]).params # ""
    /\ Head(stdout[s]).id \notin DOMAIN pending[s]

C34_DiagnosticsForwarded ==
    [][\A s \in Sessions :
         (ReaderTakes(s) /\ UnmatchedDiagnostics(s)) =>
            emitted' = emitted
                         (+) SetToBag({DiagnosticsEvent(Head(stdout[s]).params)})]_vars

\* the part of C34 about the frames without an id
C34_NotificationForwarded ==
    [][\A s \in Sessions :
         (ReaderTakes(s) /\ UnmatchedDiagnostics(s)
             /\ Head(stdout[s]).id = NoId) =>
            emitted' = emitted
                         (+) SetToBag({DiagnosticsEvent(Head(stdout[s]).params)})]_vars


\* ---------------------------------------------------------------------------
\* C35: the step in which an ls_start is rejected for its project root or
\* its metadata returns the error and changes nothing else: the Session
\* that is installed and its child, the generation counter, the handshake
\* threads, the pollers and the readers, and what has been emitted.
\* ---------------------------------------------------------------------------

\* the ls_start handed to thread t in this step is rejected
StartRejected(t) == StartCalled(t) /\ th'[t].res = "bad root"

C35_RejectedStartChangesNothing ==
    [][\A t \in Callers :
         StartRejected(t) =>
            /\ th'[t].pc = "idle"
            /\ UNCHANGED <<run_id, inner, lock, nsess, child, next_id, pending,
                           stdin, stdout, reader, chans, hs, pl, gen, emitted>>]_vars

\* an ls_start has been rejected while a Session is installed, its child
\* runs and its generation is the current one
C35_RejectedWhileRunning ==
    \E t \in Callers :
       /\ th[t].pc = "idle" /\ th[t].op = "start" /\ th[t].res = "bad root"
       /\ inner # NoSession
       /\ child[inner] = "running"
       /\ gen[inner] = run_id


\* ====================================================================
\* The JShell bridge (jshell_io.rs): JshellState.current holds the session
\* of the bridge; jshell_start replaces it, jshell_stop and shutdown_jshell
\* remove it.  jshell_start takes the mutex twice, to take the old session
\* out and to put the new one in, and spawns the bridge in between, so that
\* two calls may each spawn a bridge.  A bridge process is "none" (not
\* spawned), "running", "exited" (ended and not waited for) or "reaped".
\* ====================================================================

\* what the steps of the JShell bridge leave alone
notJshell ==
    <<lsVars, clVars, codecVars, parserVars, launchVars, stderrVars, runVars,
      archiveVars,
      cleanupVars>>

\* jshell_start is called (291-301): the resources are resolved, and the
\* call returns an error when one is missing
JshellStart(t) ==
    /\ js[t].pc = "idle"
    /\ jstarts < MaxStarts
    /\ jstarts' = jstarts + 1
    /\ \/ js' = [js EXCEPT ![t] = [IdleJshellCaller EXCEPT !.pc = "take"]]
       \/ js' = [js EXCEPT ![t] =
                    [IdleJshellCaller EXCEPT !.res = "JShell bridge not found"]]
    /\ UNCHANGED <<jcurrent, jchild, notJshell>>

\* `if let Some(mut session) = guard.take() { session.child.kill() }`
\* (303-307); the session is dropped at the end of the block
JsTake(t) ==
    /\ js[t].pc = "take"
    /\ IF jcurrent # NoBridge
       THEN jchild' = [jchild EXCEPT
                          ![jcurrent] = SessionDrop(Kill(jchild[jcurrent]))]
       ELSE UNCHANGED jchild
    /\ jcurrent' = NoBridge
    /\ js' = [js EXCEPT ![t].pc = "spawn"]
    /\ UNCHANGED <<jstarts, notJshell>>

\* `command.spawn()` (326-328): a new process, or the error of the spawn
JsSpawn(t) ==
    /\ js[t].pc = "spawn"
    /\ \/ \E b \in Jshells :
             /\ jchild[b] = "none"
             /\ \A k \in Jshells : k < b => jchild[k] # "none"
             /\ jchild' = [jchild EXCEPT ![b] = "running"]
             /\ js' = [js EXCEPT ![t].pc = "store", ![t].b = b]
       \/ /\ js' = [js EXCEPT ![t].pc = "idle", ![t].res = "spawn error"]
          /\ UNCHANGED jchild
    /\ UNCHANGED <<jcurrent, jstarts, notJshell>>

\* `*guard = Some(JshellSession { child, .. })` (364-371): the session that
\* was in the slot is dropped
JsStore(t) ==
    /\ js[t].pc = "store"
    /\ IF jcurrent # NoBridge
       THEN jchild' = [jchild EXCEPT
                          ![jcurrent] = SessionDrop(jchild[jcurrent])]
       ELSE UNCHANGED jchild
    /\ jcurrent' = js[t].b
    /\ js' = [js EXCEPT ![t].pc = "idle", ![t].res = "ok"]
    /\ UNCHANGED <<jstarts, notJshell>>

\* jshell_stop (377-385): take, kill, wait, and the drop of the session
JshellStop ==
    /\ jcurrent # NoBridge
    /\ jchild' = [jchild EXCEPT
                     ![jcurrent] = SessionDrop(Wait(Kill(jchild[jcurrent])))]
    /\ jcurrent' = NoBridge
    /\ UNCHANGED <<js, jstarts, notJshell>>

\* shutdown_jshell (438-451): take, try_wait, kill and wait unless it has
\* exited, and the drop of the session
ShutdownJshell ==
    /\ jcurrent # NoBridge
    /\ jchild' = [jchild EXCEPT
                     ![jcurrent] = SessionDrop(SessionDrop(jchild[jcurrent]))]
    /\ jcurrent' = NoBridge
    /\ UNCHANGED <<js, jstarts, notJshell>>

\* the bridge process ends on its own
JshellExits(b) ==
    /\ jchild[b] = "running"
    /\ jchild' = [jchild EXCEPT ![b] = "exited"]
    /\ UNCHANGED <<jcurrent, js, jstarts, notJshell>>

JshellNext ==
    \/ \E t \in JshellCallers :
          JshellStart(t) \/ JsTake(t) \/ JsSpawn(t) \/ JsStore(t)
    \/ JshellStop
    \/ ShutdownJshell
    \/ \E b \in Jshells : JshellExits(b)

JshellSpec == Init /\ [][JshellNext]_vars


\* the parser bridge and the JShell bridge share no state: a run of the
\* model is a run of the one or of the other, as its first call decides
BridgeJshellStart(t) == NothingParsed /\ JshellStart(t)
BridgeParserSendRaw(c) == NothingEvaluated /\ ParserSendRaw(c)

BridgeNext ==
    \/ \E t \in JshellCallers :
          BridgeJshellStart(t) \/ JsTake(t) \/ JsSpawn(t) \/ JsStore(t)
    \/ JshellStop
    \/ ShutdownJshell
    \/ \E b \in Jshells : JshellExits(b)
    \/ \E c \in ParserCallers : BridgeParserSendRaw(c)
    \/ ParserCallSteps
    \/ \E b \in Bridges : BridgeAnswers(b) \/ BridgeExits(b)
    \/ ShutdownParserBridge

BridgeSpec == Init /\ [][BridgeNext]_vars

\* ---------------------------------------------------------------------------
\* C36: a session of the JShell bridge or of the parser bridge that is
\* discarded (replaced by jshell_start, removed by jshell_stop or by the
\* shutdown, dropped after a failed request of the parser) has its child
\* killed and waited for; whatever the order of the calls, two jshell_start
\* at the same time included, a bridge process that has not been waited
\* for is the one of the session installed, or the one a jshell_start has
\* spawned and is about to install.
\* ---------------------------------------------------------------------------

\* the bridge process b is neither running nor left unreaped
Gone(st) == st \in {"none", "reaped"}

C36_JshellReaped ==
    \A b \in Jshells :
       \/ Gone(jchild[b])
       \/ b = jcurrent
       \/ \E t \in JshellCallers : js[t].pc = "store" /\ js[t].b = b

C36_ParserReaped ==
    \A b \in Bridges : Gone(bridges[b].st) \/ b = current

C36_DiscardedBridgeReaped == C36_JshellReaped /\ C36_ParserReaped

\* two calls of jshell_start have returned Ok: the bridge of the one is
\* installed and runs, the bridge of the other has been reaped
C36_ReplacedAndReaped ==
    /\ \A t \in JshellCallers : js[t].pc = "idle" /\ js[t].res = "ok"
    /\ jcurrent # NoBridge
    /\ jchild[jcurrent] = "running"
    /\ \E b \in Jshells : b # jcurrent /\ jchild[b] = "reaped"


\* ====================================================================
\* The capture of the stderr of a bridge: a thread reads the stderr line by
\* line and keeps the lines in a buffer of BRIDGE_STDERR_BUFFER_MAX_LINES
\* lines.  A captured line is written [n, text]: the n-th line read, and
\* its text.
\* ====================================================================

\* what the capture threads leave alone
notStderr ==
    <<lsVars, clVars, codecVars, parserVars, launchVars, jshellVars, runVars,
      archiveVars,
      cleanupVars>>

\* what read_line may return: a line with its end, or the last line of a
\* stream that does not end in a newline
StderrLines == {<<"x", "LF">>, <<"x", "SP", "CR", "LF">>, <<"x">>}

\* str::trim_end
TrimEnd(text) == TrimEndMatches(text, Whitespace)

\* Vec::push alone
PushOnly(buffer, line) == Append(buffer, line)

\* `if buffer.len() >= BRIDGE_STDERR_BUFFER_MAX_LINES { buffer.remove(0); }
\*  buffer.push(trimmed);`
BufferPush(buffer, line) ==
    IF Len(buffer) >= BRIDGE_STDERR_BUFFER_MAX_LINES
    THEN Append(Tail(buffer), line)
    ELSE Append(buffer, line)

\* one turn of the loop with a line read: trim_end, lock, push
StderrReadLine(k, raw) ==
    /\ ~errdone[k]
    /\ errseen[k] < MaxLines
    /\ errseen' = [errseen EXCEPT ![k] = @ + 1]
    /\ errbuf' = [errbuf EXCEPT ![k] =
                     BufferPush(@, [n |-> errseen[k] + 1,
                                    text |-> TrimEnd(raw)])]
    /\ UNCHANGED <<errdone, notStderr>>

\* read_line answers 0 bytes or an error: `break`
StderrEof(k) ==
    /\ ~errdone[k]
    /\ errdone' = [errdone EXCEPT ![k] = TRUE]
    /\ UNCHANGED <<errbuf, errseen, notStderr>>

StderrNext ==
    \E k \in StderrThreads :
       \/ \E raw \in StderrLines : StderrReadLine(k, raw)
       \/ StderrEof(k)

StderrSpec == Init /\ [][StderrNext]_vars

\* ---------------------------------------------------------------------------
\* C37: the buffer of captured stderr lines never holds more than
\* BRIDGE_STDERR_BUFFER_MAX_LINES lines; it holds the lines read last, in
\* the order in which they were read, so that the oldest line is the one
\* that is dropped.
\* ---------------------------------------------------------------------------

\* the number of lines kept after n lines were read
Kept(n) ==
    IF n < BRIDGE_STDERR_BUFFER_MAX_LINES
    THEN n ELSE BRIDGE_STDERR_BUFFER_MAX_LINES

C37_StderrBufferBounded ==
    \A k \in StderrThreads :
       /\ Len(errbuf[k]) <= BRIDGE_STDERR_BUFFER_MAX_LINES
       /\ Len(errbuf[k]) = Kept(errseen[k])
       /\ \A i \in 1..Len(errbuf[k]) :
             /\ errbuf[k][i].n = errseen[k] - Len(errbuf[k]) + i
             /\ errbuf[k][i].text = <<"x">>

\* more lines were read than the buffer holds: the first ones are gone
C37_OldestDropped ==
    \E k \in StderrThreads :
       /\ errseen[k] > BRIDGE_STDERR_BUFFER_MAX_LINES
       /\ Len(errbuf[k]) = BRIDGE_STDERR_BUFFER_MAX_LINES
       /\ errbuf[k][1].n = errseen[k] - BRIDGE_STDERR_BUFFER_MAX_LINES + 1


\* ====================================================================
\* run_main and its completion poller (compile_run.rs).  run_main takes
\* the next run id, kills the process of the handle in RunState.current,
\* spawns the process of the run, puts its handle into the slot and spawns
\* a thread that polls the handle till the process has ended.  The process
\* of run r is rchild[r]: "none", "running", "exited" or "reaped".
\* ====================================================================

\* what the steps of the runs leave alone
notRun ==
    <<lsVars, clVars, codecVars, parserVars, launchVars, jshellVars,
      stderrVars, archiveVars,
      cleanupVars>>

\* run_main is called (210-231): an error when the runtime or the classes
\* are missing, and `state.next_id()` otherwise
RunMain(t) ==
    /\ rt[t].pc = "idle"
    /\ rcalls < MaxRuns
    /\ rcalls' = rcalls + 1
    /\ \/ /\ rrun_id' = rrun_id + 1
          /\ rt' = [rt EXCEPT ![t] = [pc |-> "kill", id |-> rrun_id + 1,
                                      res |-> ""]]
       \/ /\ rt' = [rt EXCEPT ![t] =
                       [IdleRunCaller EXCEPT
                           !.res = "Compiled classes not found"]]
          /\ UNCHANGED rrun_id
    /\ UNCHANGED <<rcurrent, rchild, rp, revents, notRun>>

\* `if let Some(handle) = guard.as_mut() { handle.child.kill() }` (232-236)
RmKill(t) ==
    /\ rt[t].pc = "kill"
    /\ IF rcurrent # NoRun
       THEN rchild' = [rchild EXCEPT ![rcurrent] = Kill(@)]
       ELSE UNCHANGED rchild
    /\ rt' = [rt EXCEPT ![t].pc = "spawn"]
    /\ UNCHANGED <<rcurrent, rrun_id, rp, revents, rcalls, notRun>>

\* `command.spawn()` (257-261): the process of the run, or an error
RmSpawn(t) ==
    /\ rt[t].pc = "spawn"
    /\ \/ /\ rchild' = [rchild EXCEPT ![rt[t].id] = "running"]
          /\ rt' = [rt EXCEPT ![t].pc = "store"]
       \/ /\ rt' = [rt EXCEPT ![t].pc = "idle", ![t].res = "spawn error"]
          /\ UNCHANGED rchild
    /\ UNCHANGED <<rcurrent, rrun_id, rp, revents, rcalls, notRun>>

\* `*guard = Some(RunHandle { id: run_id, child })` (263-265)
RmStore(t) ==
    /\ rt[t].pc = "store"
    /\ rcurrent' = rt[t].id
    /\ rt' = [rt EXCEPT ![t].pc = "started"]
    /\ UNCHANGED <<rrun_id, rchild, rp, revents, rcalls, notRun>>

\* the run-start event, the output readers and the poller thread
\* (267-276), and `Ok(run_id)` (323)
RmStartPoller(t) ==
    /\ rt[t].pc = "started"
    /\ revents' = Append(revents, <<"run-start", rt[t].id>>)
    /\ rp' = [rp EXCEPT ![rt[t].id].pc = "check"]
    /\ rt' = [rt EXCEPT ![t].pc = "idle", ![t].res = "ok"]
    /\ UNCHANGED <<rcurrent, rrun_id, rchild, rcalls, notRun>>

\* the poller looks at whatever handle is in the slot
AnyHandle(r) == rcurrent # NoRun

\* `let Some(handle) = guard.as_mut() else { return };
\*  if handle.id != run_id { return }` (282-287)
OwnHandle(r) == rcurrent = r

\* one turn of the loop of the poller of run r (277-292, 320): it returns
\* when the slot does not hold the handle of r, and calls try_wait on the
\* handle otherwise; with Ok(None) or an error it sleeps and comes back
RpCheck(r) ==
    /\ rp[r].pc = "check"
    /\ IF ~OwnHandle(r)
       THEN /\ rp' = [rp EXCEPT ![r].pc = "done"]
            /\ UNCHANGED rchild
       ELSE /\ rchild' = [rchild EXCEPT ![rcurrent] = TryWait(@)]
            /\ rp' = [rp EXCEPT
                         ![r].waited = @ \cup {rcurrent},
                         ![r].pc = IF TryWait(rchild[rcurrent]) = "reaped"
                                   THEN "clear" ELSE "check"]
    /\ UNCHANGED <<rcurrent, rrun_id, rt, revents, rcalls, notRun>>

\* the readers of the output are joined, and the slot is emptied if it
\* still holds the handle of r (294-310)
RpClear(r) ==
    /\ rp[r].pc = "clear"
    /\ IF rcurrent = r
       THEN /\ rcurrent' = NoRun
            /\ rp' = [rp EXCEPT ![r].pc = "emit", ![r].cleared = rcurrent]
       ELSE /\ rp' = [rp EXCEPT ![r].pc = "emit"]
            /\ UNCHANGED rcurrent
    /\ UNCHANGED <<rrun_id, rchild, rt, revents, rcalls, notRun>>

\* `app_handle.emit("run-complete", payload); return` (311-317)
RpEmit(r) ==
    /\ rp[r].pc = "emit"
    /\ revents' = Append(revents, <<"run-complete", r>>)
    /\ rp' = [rp EXCEPT ![r].pc = "done"]
    /\ UNCHANGED <<rcurrent, rrun_id, rchild, rt, rcalls, notRun>>

\* cancel_run (327-340): kill and wait on the handle, which stays
CancelRun ==
    /\ rcurrent # NoRun
    /\ rchild' = [rchild EXCEPT ![rcurrent] = Wait(Kill(@))]
    /\ UNCHANGED <<rcurrent, rrun_id, rt, rp, revents, rcalls, notRun>>

\* shutdown_run_process (342-354)
ShutdownRunProcess ==
    /\ rcurrent # NoRun
    /\ rchild' = [rchild EXCEPT ![rcurrent] = SessionDrop(@)]
    /\ rcurrent' = NoRun
    /\ UNCHANGED <<rrun_id, rt, rp, revents, rcalls, notRun>>

\* the process of run r ends on its own
RunExits(r) ==
    /\ rchild[r] = "running"
    /\ rchild' = [rchild EXCEPT ![r] = "exited"]
    /\ UNCHANGED <<rcurrent, rrun_id, rt, rp, revents, rcalls, notRun>>

RunNext ==
    \/ \E t \in RunCallers :
          \/ RunMain(t)
          \/ RmKill(t)
          \/ RmSpawn(t)
          \/ RmStore(t)
          \/ RmStartPoller(t)
    \/ \E r \in Runs : RpCheck(r) \/ RpClear(r) \/ RpEmit(r) \/ RunExits(r)
    \/ CancelRun
    \/ ShutdownRunProcess

RunSpec == Init /\ [][RunNext]_vars


\* ---------------------------------------------------------------------------
\* C38: the completion poller of run r empties RunState.current only
\* while the slot holds the handle of r, and emits run-complete for r at
\* most once; a poller whose run has been replaced never empties the slot
\* of the newer run, never calls try_wait on its handle and never reports
\* it.
\* ---------------------------------------------------------------------------

\* the run-complete events of run r
Completions(r) ==
    {i \in 1..Len(revents) : revents[i] = <<"run-complete", r>>}

C38_PollerKeepsToItsRun ==
    \A r \in Runs :
       /\ rp[r].waited \subseteq {r}
       /\ rp[r].cleared \in {NoRun, r}
       /\ Cardinality(Completions(r)) <= 1
       /\ Completions(r) # {} => r \in rp[r].waited

\* the slot is emptied by a poller only when it held the run of the poller
C38_ClearsOwnRun ==
    [][\A r \in Runs :
          rp[r].pc = "clear" /\ rp'[r].pc = "emit" /\ rcurrent' # rcurrent
             => rcurrent = r /\ rcurrent' = NoRun]_vars

\* run 1 was replaced by run 2: its poller has returned without a report,
\* and the poller of run 2 has reported the end of run 2
C38_ReplacedPollerSilent ==
    /\ rp[1].pc = "done"
    /\ Completions(1) = {}
    /\ rp[2].pc = "done"
    /\ rp[2].cleared = 2
    /\ Completions(2) # {}


\* ====================================================================
\* write_packed_archive (project_archive.rs 335-422): the archive is
\* written to archive_path + ".tmp"; the archive at archive_path, if there
\* is one, is renamed to archive_path + ".bak", and the temporary file is
\* renamed to archive_path.  A file operation whose result the code looks
\* at may fail; one whose result it ignores (`let _ = ...`) is taken to
\* succeed, so that what a call leaves behind is left by the code.
\* ====================================================================

\* what the steps of write_packed_archive leave alone
notArchive ==
    <<lsVars, clVars, codecVars, parserVars, launchVars, jshellVars,
      stderrVars, runVars,
      cleanupVars>>

\* the disk when the application starts: an archive saved before or none,
\* and a ".bak" that a run which was stopped between the two renames has
\* left or none
InitialFiles ==
    {[archive |-> a, tmp |-> NoFile, bak |-> b] :
        a \in {NoFile, OldArchive}, b \in {NoFile, OldArchive}}

ArchiveInit ==
    /\ NothingStarted
    /\ NothingSent
    /\ NothingFramed
    /\ NothingParsed
    /\ NothingLaunched
    /\ NothingEvaluated
    /\ NothingCaptured
    /\ NothingRun
    /\ NothingCleaned
    /\ files \in InitialFiles
    /\ wp = IdleWriter
    /\ wcalls = 0

\* the function returns: Ok(()) or Err(error)
Return(r) == [wp EXCEPT !.pc = "idle", !.res = r]

\* 336-352: the checks of the project root, collect_pack_paths and
\* create_dir_all; the call goes on with the paths it has to pack
WritePackedArchive ==
    /\ wp.pc = "idle"
    /\ wcalls < MaxWrites
    /\ wcalls' = wcalls + 1
    /\ \/ \E n \in 1..MaxEntries :
             wp' = [pc |-> "temp", before |-> files.archive, left |-> n,
                    had |-> FALSE, res |-> ""]
       \/ \E e \in {"Project root directory not found",
                    "Project root is empty"} :
             wp' = [pc |-> "idle", before |-> files.archive, left |-> 0,
                    had |-> FALSE, res |-> e]
    /\ UNCHANGED <<files, notArchive>>

\* `if temp_path.exists() { let _ = fs::remove_file(&temp_path); }`
\* (354-357)
WpClearTemp ==
    /\ wp.pc = "temp"
    /\ files' = [files EXCEPT !.tmp = NoFile]
    /\ wp' = [wp EXCEPT !.pc = "create"]
    /\ UNCHANGED <<wcalls, notArchive>>

\* `fs::File::create(&temp_path)` (360)
WpCreate ==
    /\ wp.pc = "create"
    /\ \/ /\ files' = [files EXCEPT
                          !.tmp = [by |-> wcalls, entries |-> 0,
                                   complete |-> FALSE]]
          /\ wp' = [wp EXCEPT !.pc = "entries"]
       \/ /\ wp' = [wp EXCEPT !.pc = "failed"]
          /\ UNCHANGED files
    /\ UNCHANGED <<wcalls, notArchive>>

\* one path is added to the archive (369-384)
WpEntry ==
    /\ wp.pc = "entries"
    /\ wp.left > 0
    /\ \/ /\ files' = [files EXCEPT !.tmp.entries = @ + 1]
          /\ wp' = [wp EXCEPT !.left = @ - 1]
       \/ /\ wp' = [wp EXCEPT !.pc = "failed"]
          /\ UNCHANGED files
    /\ UNCHANGED <<wcalls, notArchive>>

\* `zip.finish()` (386)
WpFinish ==
    /\ wp.pc = "entries"
    /\ wp.left = 0
    /\ \/ /\ files' = [files EXCEPT !.tmp.complete = TRUE]
          /\ wp' = [wp EXCEPT !.pc = "backup"]
       \/ /\ wp' = [wp EXCEPT !.pc = "failed"]
          /\ UNCHANGED files
    /\ UNCHANGED <<wcalls, notArchive>>

\* the closure has returned an error (390-393)
WpFailed ==
    /\ wp.pc = "failed"
    /\ files' = [files EXCEPT !.tmp = NoFile]
    /\ wp' = Return("zip error")
    /\ UNCHANGED <<wcalls, notArchive>>

\* 395-405: the archive at archive_path is moved out of the way.  When
\* `fs::remove_file(&backup_path)` fails (399) the function returns with
\* `?`; when the rename fails the temporary file is removed first.
WpBackup ==
    /\ wp.pc = "backup"
    /\ IF files.archive = NoFile
       THEN /\ wp' = [wp EXCEPT !.pc = "rename", !.had = FALSE]
            /\ UNCHANGED files
       ELSE \/ /\ files.bak # NoFile
               /\ UNCHANGED files
               /\ wp' = Return("remove backup failed")
            \/ /\ files' = [files EXCEPT !.bak = files.archive,
                                         !.archive = NoFile]
               /\ wp' = [wp EXCEPT !.pc = "rename", !.had = TRUE]
            \/ /\ files' = [files EXCEPT
                               !.tmp = NoFile,
                               !.bak = IF files.bak # NoFile
                                       THEN NoFile ELSE @]
               /\ wp' = Return("rename to backup failed")
    /\ UNCHANGED <<wcalls, notArchive>>

\* `fs::rename(&temp_path, archive_path)` and what follows it (407-421)
WpRename ==
    /\ wp.pc = "rename"
    /\ \/ /\ files' = [files EXCEPT
                          !.archive = files.tmp,
                          !.tmp = NoFile,
                          !.bak = IF wp.had THEN NoFile ELSE @]
          /\ wp' = Return("ok")
       \/ /\ files' = IF wp.had /\ files.bak # NoFile
                      THEN [files EXCEPT !.tmp = NoFile,
                                         !.archive = files.bak,
                                         !.bak = NoFile]
                      ELSE [files EXCEPT !.tmp = NoFile]
          /\ wp' = Return("rename failed")
    /\ UNCHANGED <<wcalls, notArchive>>

ArchiveNext ==
    \/ WritePackedArchive
    \/ WpClearTemp
    \/ WpCreate
    \/ WpEntry
    \/ WpFinish
    \/ WpFailed
    \/ WpBackup
    \/ WpRename

ArchiveSpec == ArchiveInit /\ [][ArchiveNext]_vars


\* ---------------------------------------------------------------------------
\* C39: when write_packed_archive returns an error, the archive that was
\* at archive_path when the call began is still there with its content,
\* and there is no file at archive_path + ".tmp"; archive_path never holds
\* anything but a finished archive.
\* ---------------------------------------------------------------------------

\* the call has returned an error
ReturnedError == wp.pc = "idle" /\ wp.res \notin {"", "ok"}

C39_ArchiveKept ==
    ReturnedError /\ wp.before # NoFile => files.archive = wp.before

C39_TmpRemoved == ReturnedError => files.tmp = NoFile

C39_OnlyFinishedArchives ==
    files.archive # NoFile => files.archive.complete

C39_ErrorLeavesArchiveAndNoTmp ==
    /\ C39_ArchiveKept
    /\ C39_TmpRemoved
    /\ C39_OnlyFinishedArchives


\* ====================================================================
\* cleanup_stale_workspace_sessions (project_archive.rs 64-119): the
\* entries of a workspace root are visited one by one, and the directory
\* of a session that is not the current one and that began more than
\* WORKSPACE_SESSION_RETENTION_HOURS ago is removed.  A name is the
\* sequence of its characters.
\* ====================================================================

\* what the cleanup leaves alone
notCleanup ==
    <<lsVars, clVars, codecVars, parserVars, launchVars, jshellVars,
      stderrVars, runVars, archiveVars>>

RECURSIVE Split(_, _)
\* str::split(sep): the parts between the separators, empty ones included
Split(text, sep) ==
    IF \A i \in 1..Len(text) : text[i] # sep
    THEN <<text>>
    ELSE LET k == CHOOSE i \in 1..Len(text) :
                     /\ text[i] = sep
                     /\ \A j \in 1..(i - 1) : text[j] # sep
         IN  <<SubSeq(text, 1, k - 1)>>
                 \o Split(SubSeq(text, k + 1, Len(text)), sep)

SessionWord == <<"s", "e", "s", "s", "i", "o", "n">>

NoStartMs == NoLength   \* parse_session_start_ms returned None

\* parse_session_start_ms (64-76)
ParseSessionStartMs(session_id) ==
    LET parts == Split(session_id, "-")
    IN  IF parts[1] # SessionWord THEN NoStartMs
        ELSE IF Len(parts) < 3 THEN NoStartMs
        ELSE IF Len(parts) > 3 THEN NoStartMs
        ELSE ParseUsize(parts[3])

\* u128::saturating_sub
SaturatingSub(a, b) == IF a >= b THEN a - b ELSE 0

RetentionMs == WORKSPACE_SESSION_RETENTION_HOURS * 60 * 60 * 1000

\* a session that is as old as the retention window counts as stale
IsStaleAtRetention(session_id, now) ==
    /\ ParseSessionStartMs(session_id) # NoStartMs
    /\ SaturatingSub(now, ParseSessionStartMs(session_id)) >= RetentionMs

\* is_stale_workspace_session (78-85)
IsStaleWorkspaceSession(session_id, now) ==
    /\ ParseSessionStartMs(session_id) # NoStartMs
    /\ SaturatingSub(now, ParseSessionStartMs(session_id)) > RetentionMs

\* "session-" pid "-" start and other names of three parts
Named(word, pid, start) == word \o <<"-">> \o pid \o <<"-">> \o start

\* the names found in a workspace root
SessionNames ==
    { Named(SessionWord, <<"7">>, <<"0">>),
      Named(SessionWord, <<"7">>, <<"1">>),
      Named(SessionWord, <<"9">>, <<"1">>),
      Named(SessionWord, <<>>, <<"1">>),
      Named(SessionWord, <<"7">>, <<"+", "1">>),
      Named(SessionWord, <<"7">>, <<"x">>),
      Named(SessionWord, <<"7">>, <<>>),
      Named(SessionWord, <<"7">>, <<"1", "-", "2">>),
      Named(SessionWord, <<"7">>,
            <<"1", "2", "0", "9", "6", "0", "0", "0", "0", "3">>),
      Named(<<"S", "e", "s", "s", "i", "o", "n">>, <<"7">>, <<"1">>),
      Named(<<"l", "e", "g", "a", "c", "y">>, <<"7">>, <<"1">>),
      SessionWord \o <<"-", "7">>,
      SessionWord }

\* the entries of a workspace root: directories, and a file
RootEntries ==
    [name : SessionNames, dir : {TRUE}]
        \cup {[name |-> Named(SessionWord, <<"7">>, <<"0">>), dir |-> FALSE]}

\* the time of the cleanup: a session that began at 1 is as old as the
\* retention window, one millisecond older, or younger
Nows == {RetentionMs, RetentionMs + 1, RetentionMs + 2}

\* the id of this session, or "session-unknown" when there is none (51-55)
CurrentSessions ==
    { Named(SessionWord, <<"9">>, <<"1">>),
      SessionWord \o <<"-", "u", "n", "k", "n", "o", "w", "n">> }

CleanupInit ==
    /\ NothingStarted
    /\ NothingSent
    /\ NothingFramed
    /\ NothingParsed
    /\ NothingLaunched
    /\ NothingEvaluated
    /\ NothingCaptured
    /\ NothingRun
    /\ NothingArchived
    /\ listing \in {S \in SUBSET RootEntries : Cardinality(S) <= MaxDirs}
    /\ now_ms \in Nows
    /\ current_session \in CurrentSessions
    /\ visited = {}
    /\ removed = {}

\* one turn of the loop over the entries (102-117)
CleanupEntry(entry) ==
    /\ entry \in listing \ visited
    /\ visited' = visited \cup {entry}
    /\ IF /\ entry.dir
          /\ entry.name # current_session
          /\ IsStaleWorkspaceSession(entry.name, now_ms)
       THEN removed' = removed \cup {entry}
       ELSE UNCHANGED removed
    /\ UNCHANGED <<listing, now_ms, current_session, notCleanup>>

CleanupStaleWorkspaceSessions == \E entry \in RootEntries : CleanupEntry(entry)

CleanupSpec == CleanupInit /\ [][CleanupStaleWorkspaceSessions]_vars

\* ---------------------------------------------------------------------------
\* C40: cleanup_stale_workspace_sessions removes an entry only if it is a
\* directory whose name has exactly three parts between dashes, the first
\* one "session" and the last one a number startMs, is not the id of the
\* current session, and has now - startMs strictly greater than the
\* retention of 14 days; no other entry is removed.  (The second part of
\* the name is not looked at, and the number may begin with "+".)
\* ---------------------------------------------------------------------------

Dashes(name) == {i \in 1..Len(name) : name[i] = "-"}

\* the part of a name after its last dash
LastPart(name) ==
    SubSeq(name, (CHOOSE i \in Dashes(name) :
                     \A j \in Dashes(name) : j <= i) + 1, Len(name))

Digits == {DigitChars[d] : d \in 1..10}

\* the name is "session-<pid>-<startMs>"
SessionShaped(name) ==
    /\ Cardinality(Dashes(name)) = 2
    /\ Len(name) > Len(SessionWord)
    /\ SubSeq(name, 1, Len(SessionWord) + 1) = SessionWord \o <<"-">>
    /\ LET start == LastPart(name)
           digits == IF start # <<>> /\ start[1] = "+"
                     THEN Tail(start) ELSE start
       IN  /\ digits # <<>>
           /\ \A i \in 1..Len(digits) : digits[i] \in Digits

FourteenDaysMs == 14 * 24 * 60 * 60 * 1000

C40_RemovesOnlyStaleSessions ==
    \A entry \in removed :
       /\ entry.dir
       /\ SessionShaped(entry.name)
       /\ entry.name # current_session
       /\ now_ms - DigitsValue(
             SelectSeq(LastPart(entry.name), LAMBDA c : c \in Digits))
            > FourteenDaysMs

\* a session one millisecond older than the retention has been removed,
\* and one that is exactly as old has been looked at and left
C40_StaleRemovedFreshKept ==
    /\ [name |-> Named(SessionWord, <<"7">>, <<"0">>), dir |-> TRUE]
          \in removed
    /\ [name |-> Named(SessionWord, <<"7">>, <<"1">>), dir |-> TRUE]
          \in visited \ removed

=============================================================================
